---- MODULE Spec2Model ----
(***************************************************************************)
(* Alias store (core/alias_database.py) and tiered signal validator        *)
(* (core/validator.py) of Validador-COMTRADE.                              *)
(*                                                                         *)
(* Python str values are TLA+ strings; a dict is the sequence of its       *)
(* items in insertion order (Python dicts keep insertion order, and        *)
(* find_by_relay_name / matches[0] depend on it).  A JSON file is the      *)
(* sequence of the (key, object) members of its top-level mapping.         *)
(* Confidences are held in hundredths (0.95 is 95).                        *)
(***************************************************************************)
EXTENDS Integers, Sequences, FiniteSets, TLC

VARIABLES
    entries,    \* AliasDatabase._entries: items <<key, AliasEntry>> in dict order
    file,       \* the backing file at AliasDatabase._db_path
    xfile,      \* the external JSON file written by export_to_json
    run,        \* SignalValidator.validate in progress (loop position, results)
    last,       \* the call that completed last, with its arguments and return value
    pre,        \* _entries and the backing file as they were when that call began
    peer,       \* _entries of a second AliasDatabase opened on the same backing file
    writer,     \* the instance whose mutating call completed last: "self", "peer", "" if none
    xrio        \* XRIOParser.parse in progress (position, document, result so far)

vars == <<entries, file, xfile, run, last, pre, peer, writer, xrio>>

\* the state outside the one AliasDatabase of the application
others == <<peer, writer, xrio>>

(***************************************************************************)
(* Bounds of the exploration.                                              *)
(***************************************************************************)
MaxEntries == 2     \* largest number of entries the store is grown to
MaxSignals == 1     \* largest inventory (analog + binary) handed to validate
MaxLines == 9       \* longest .cfg text handed to parse_cfg, in lines
MaxBlocks == 2      \* most children of the root of an XRIO document
MaxInventory == 2   \* largest inventory (analog + binary) handed to the summary

(***************************************************************************)
(* str helpers                                                             *)
(***************************************************************************)
LowerChars == "abcdefghijklmnopqrstuvwxyz"
UpperChars == "ABCDEFGHIJKLMNOPQRSTUVWXYZ"
Whitespace == {" ", "\t", "\n", "\r", "\f"}

CharAt(s, i) == SubSeq(s, i, i)

\* the case mappings of str.upper and str.lower, as tables over the letters
UpperMap ==
    [c \in {CharAt(LowerChars, i) : i \in 1..Len(LowerChars)} |->
        CharAt(UpperChars, CHOOSE i \in 1..Len(LowerChars) : CharAt(LowerChars, i) = c)]

LowerMap ==
    [c \in {CharAt(UpperChars, i) : i \in 1..Len(UpperChars)} |->
        CharAt(LowerChars, CHOOSE i \in 1..Len(UpperChars) : CharAt(UpperChars, i) = c)]

UpperChar(c) == IF c \in DOMAIN UpperMap THEN UpperMap[c] ELSE c

LowerChar(c) == IF c \in DOMAIN LowerMap THEN LowerMap[c] ELSE c

RECURSIVE upper(_)
upper(s) == IF s = "" THEN "" ELSE UpperChar(Head(s)) \o upper(Tail(s))

RECURSIVE lower(_)
lower(s) == IF s = "" THEN "" ELSE LowerChar(Head(s)) \o lower(Tail(s))

RECURSIVE lstrip(_)
lstrip(s) == IF s # "" /\ Head(s) \in Whitespace THEN lstrip(Tail(s)) ELSE s

RECURSIVE rstrip(_)
rstrip(s) ==
    IF s # "" /\ CharAt(s, Len(s)) \in Whitespace
    THEN rstrip(SubSeq(s, 1, Len(s) - 1)) ELSE s

strip(s) == rstrip(lstrip(s))

\* sub in s
Contains(sub, s) ==
    \E i \in 1..(Len(s) - Len(sub) + 1) : SubSeq(s, i, i + Len(sub) - 1) = sub

startswith(s, p) == Len(p) <= Len(s) /\ SubSeq(s, 1, Len(p)) = p

endswith(s, p) == Len(p) <= Len(s) /\ SubSeq(s, Len(s) - Len(p) + 1, Len(s)) = p

\* s.replace(c, r) for a one-character c
RECURSIVE replace(_, _, _)
replace(s, c, r) ==
    IF s = "" THEN ""
    ELSE (IF Head(s) = c THEN r ELSE Head(s)) \o replace(Tail(s), c, r)

(***************************************************************************)
(* models/signal_models.py                                                 *)
(***************************************************************************)
AliasEntry(relay_name, standard_name, relay_model, signal_type, function, auto_detected, validated) ==
    [relay_name |-> relay_name, standard_name |-> standard_name,
     relay_model |-> relay_model, signal_type |-> signal_type,
     function |-> function, auto_detected |-> auto_detected,
     validated |-> validated]

\* AliasEntry.key
key(e) == e.relay_model \o "::" \o e.relay_name

\* f"{relay_model}::{relay_name}" as remove and get build it
KeyOf(relay_model, relay_name) == relay_model \o "::" \o relay_name

(***************************************************************************)
(* dict operations on an item sequence                                     *)
(***************************************************************************)
Keys(d) == {d[i].key : i \in 1..Len(d)}

IndexOf(d, k) == CHOOSE i \in 1..Len(d) : d[i].key = k

\* d[k] = v : an existing key keeps its position, a new key goes last
DictSet(d, k, v) ==
    IF k \in Keys(d)
    THEN [d EXCEPT ![IndexOf(d, k)] = [key |-> k, entry |-> v]]
    ELSE Append(d, [key |-> k, entry |-> v])

DictDel_truncate(d, k) == SubSeq(d, 1, IndexOf(d, k) - 1)

\* del d[k]
DictDel(d, k) ==
    LET i == IndexOf(d, k)
    IN  SubSeq(d, 1, i - 1) \o SubSeq(d, i + 1, Len(d))

(***************************************************************************)
(* core/alias_database.py : persistence                                    *)
(***************************************************************************)
\* the JSON object save and export_to_json write for one entry
ToJson(e) ==
    [relay_name |-> e.relay_name, standard_name |-> e.standard_name,
     relay_model |-> e.relay_model, signal_type |-> e.signal_type,
     function |-> e.function, auto_detected |-> e.auto_detected,
     validated |-> e.validated]

\* the keyword arguments AliasEntry accepts
AliasFields ==
    {"relay_name", "standard_name", "relay_model", "signal_type", "function",
     "auto_detected", "validated"}

\* AliasEntry(**data) raises TypeError on a keyword that is not a field
Buildable(data) == DOMAIN data \subseteq AliasFields

\* the value of a keyword, or the dataclass default when it is not given
Field(data, f, default) == IF f \in DOMAIN data THEN data[f] ELSE default

\* AliasEntry(**data)
FromJson(data) ==
    AliasEntry(Field(data, "relay_name", ""), Field(data, "standard_name", ""),
               Field(data, "relay_model", ""), Field(data, "signal_type", "analog"),
               Field(data, "function", ""), Field(data, "auto_detected", FALSE),
               Field(data, "validated", FALSE))

\* the mapping save and export_to_json dump: one member per item, under the dict's key
Dump(d) == [i \in 1..Len(d) |-> [key |-> d[i].key, data |-> ToJson(d[i].entry)]]

\* a file is absent or holds a text: json tells what json.load makes of it,
\* "invalid" (JSONDecodeError), "array" (a top-level list) or "object" (a
\* top-level mapping, whose members are raw)
save(d) == [exists |-> TRUE, json |-> "object", raw |-> Dump(d)]

\* the loop of _load from member i on, d the entries stored so far; a record
\* that cannot be built raises TypeError, and the handler empties the map
RECURSIVE LoadLoop(_, _, _)
LoadLoop(raw, i, d) ==
    IF i > Len(raw) THEN d
    ELSE IF ~Buildable(raw[i].data) THEN <<>>
    ELSE LoadLoop(raw, i + 1, DictSet(d, raw[i].key, FromJson(raw[i].data)))

\* _load: every member of the file's mapping is stored under the member's own
\* key; JSONDecodeError, TypeError and KeyError leave an empty map, and the
\* AttributeError of raw.items() on a value that is no mapping is not caught
_load(f) ==
    IF ~f.exists THEN [entries |-> <<>>, raised |-> ""]
    ELSE IF f.json = "invalid" THEN [entries |-> <<>>, raised |-> ""]
    ELSE IF f.json # "object" THEN [entries |-> <<>>, raised |-> "AttributeError"]
    ELSE [entries |-> LoadLoop(f.raw, 1, <<>>), raised |-> ""]

(***************************************************************************)
(* core/alias_database.py : CRUD.  A database db is [entries, file]; a     *)
(* mutating method gives the database after the call and the value         *)
(* returned.                                                               *)
(***************************************************************************)
add_keep_first(db, entry) ==
    LET k == key(entry)
        is_new == k \notin Keys(db.entries)
        d == IF is_new THEN DictSet(db.entries, k, entry) ELSE db.entries
    IN  [entries |-> d, file |-> save(d), ret |-> is_new]

add(db, entry) ==
    LET k == key(entry)
        is_new == k \notin Keys(db.entries)
        d == DictSet(db.entries, k, entry)
    IN  [entries |-> d, file |-> save(d), ret |-> is_new]

remove_unsaved(db, relay_model, relay_name) ==
    LET k == KeyOf(relay_model, relay_name)
    IN  IF k \in Keys(db.entries)
        THEN [entries |-> DictDel(db.entries, k), file |-> db.file, ret |-> TRUE]
        ELSE [entries |-> db.entries, file |-> db.file, ret |-> FALSE]

remove(db, relay_model, relay_name) ==
    LET k == KeyOf(relay_model, relay_name)
    IN  IF k \in Keys(db.entries)
        THEN [entries |-> DictDel(db.entries, k),
              file |-> save(DictDel(db.entries, k)), ret |-> TRUE]
        ELSE [entries |-> db.entries, file |-> db.file, ret |-> FALSE]

\* a slip that empties the map and leaves the file as it was
clear_unsaved(db) == [entries |-> <<>>, file |-> db.file, ret |-> TRUE]

clear(db) == [entries |-> <<>>, file |-> save(<<>>), ret |-> TRUE]

\* export_to_json: the content written to file_path
export_to_json(db) == [exists |-> TRUE, json |-> "object", raw |-> Dump(db.entries)]

\* import_from_json, the loop from member i of raw on, count new insertions so
\* far; raised names the exception that leaves the call, "" when it returns:
\* AliasEntry(**data) raises TypeError on a record it cannot build, after the
\* records before it were added and saved
RECURSIVE ImportLoop(_, _, _, _)
ImportLoop(db, raw, i, count) ==
    IF i > Len(raw)
    THEN [entries |-> db.entries, file |-> db.file, ret |-> count, raised |-> ""]
    ELSE IF ~Buildable(raw[i].data)
    THEN [entries |-> db.entries, file |-> db.file, ret |-> count, raised |-> "TypeError"]
    ELSE LET a == add(db, FromJson(raw[i].data))
         IN  ImportLoop([entries |-> a.entries, file |-> a.file], raw, i + 1,
                        IF a.ret THEN count + 1 ELSE count)

\* the call leaves import_from_json before its loop
ImportRaised(db, raised) ==
    [entries |-> db.entries, file |-> db.file, ret |-> 0, raised |-> raised]

\* a slip that reports every record of the file as a new insertion
import_from_json_count_all(db, f) ==
    [ImportLoop(db, f.raw, 1, 0) EXCEPT !.ret = Len(f.raw)]

\* import_from_json: open raises on an absent file, json.load on a text that
\* is not JSON, raw.items() on a value that is no mapping; nothing is caught
import_from_json(db, f) ==
    IF ~f.exists THEN ImportRaised(db, "FileNotFoundError")
    ELSE IF f.json = "invalid" THEN ImportRaised(db, "JSONDecodeError")
    ELSE IF f.json # "object" THEN ImportRaised(db, "AttributeError")
    ELSE ImportLoop(db, f.raw, 1, 0)

\* get
get(d, relay_model, relay_name) ==
    LET k == KeyOf(relay_model, relay_name)
    IN  IF k \in Keys(d)
        THEN [none |-> FALSE, entry |-> d[IndexOf(d, k)].entry]
        ELSE [none |-> TRUE]

\* find_by_relay_name
RECURSIVE find_by_relay_name(_, _)
find_by_relay_name(d, relay_name) ==
    IF d = <<>> THEN <<>>
    ELSE (IF lower(d[1].entry.relay_name) = lower(relay_name)
          THEN <<d[1].entry>> ELSE <<>>)
         \o find_by_relay_name(Tail(d), relay_name)

find_standard_for_name_first(d, relay_model, relay_name) ==
    LET entry == get(d, relay_model, relay_name)
        matches == find_by_relay_name(d, relay_name)
    IN  IF matches # <<>> THEN [none |-> FALSE, name |-> matches[1].standard_name]
        ELSE IF ~entry.none THEN [none |-> FALSE, name |-> entry.entry.standard_name]
        ELSE [none |-> TRUE, name |-> ""]

\* find_standard_for; Python's None is [none |-> TRUE]
find_standard_for(d, relay_model, relay_name) ==
    LET entry == get(d, relay_model, relay_name)
        matches == find_by_relay_name(d, relay_name)
    IN  IF ~entry.none THEN [none |-> FALSE, name |-> entry.entry.standard_name]
        ELSE IF matches # <<>> THEN [none |-> FALSE, name |-> matches[1].standard_name]
        ELSE [none |-> TRUE, name |-> ""]

(***************************************************************************)
(* core/comtrade_parser.py : parse_cfg.  The text of a .cfg file is the    *)
(* sequence of its lines.  int() and float() give [ok, value], ok false    *)
(* where Python raises ValueError; a float is held as the literal that     *)
(* float() accepted ("60" for 60.0).  parse_cfg gives the configuration,   *)
(* or the exception that leaves the call in raised.                        *)
(***************************************************************************)
Digits == "0123456789"

IsDigit(c) == c # "" /\ Contains(c, Digits)

\* the number of digits s begins with
RECURSIVE LeadingDigits(_)
LeadingDigits(s) ==
    IF s # "" /\ IsDigit(Head(s)) THEN 1 + LeadingDigits(Tail(s)) ELSE 0

DigitValue(c) == CHOOSE d \in 0..9 : CharAt(Digits, d + 1) = c

RECURSIVE DigitsValue(_, _)
DigitsValue(s, acc) ==
    IF s = "" THEN acc ELSE DigitsValue(Tail(s), 10 * acc + DigitValue(Head(s)))

\* s without a leading sign
Unsigned(s) == IF startswith(s, "+") \/ startswith(s, "-") THEN Tail(s) ELSE s

\* the element of a one-element set: {e : x \in {v}} names the value v in e
Value(S) == CHOOSE v \in S : TRUE

\* the longest digit string int() converts (sys.int_info.default_max_str_digits)
MaxStrDigits == 4300

\* int(s): blanks stripped, an optional sign, then decimal digits only, no
\* more of them than MaxStrDigits
int(s) ==
    LET t == strip(s)
        body == Unsigned(t)
        ok == body # "" /\ Len(body) <= MaxStrDigits /\ LeadingDigits(body) = Len(body)
    IN  [ok |-> ok,
         value |-> IF ~ok THEN 0
                   ELSE IF startswith(t, "-") THEN 0 - DigitsValue(body, 0)
                   ELSE DigitsValue(body, 0)]

\* the exponent of a decimal literal: nothing, or e and signed digits
IsExponent(r3) ==
    \/ r3 = ""
    \/ /\ startswith(r3, "e")
       /\ Unsigned(SubSeq(r3, 2, Len(r3))) # ""
       /\ LeadingDigits(Unsigned(SubSeq(r3, 2, Len(r3)))) = Len(Unsigned(SubSeq(r3, 2, Len(r3))))

\* a digits, then b digits at the head of r2, then an exponent
IsFraction(a, r2, b) == a + b > 0 /\ IsExponent(SubSeq(r2, b + 1, Len(r2)))

\* a digits, then r1: an optional point and the rest of a decimal literal
IsDecimal(a, r1) ==
    IF startswith(r1, ".") THEN IsFraction(a, Tail(r1), LeadingDigits(Tail(r1)))
    ELSE IsFraction(a, r1, 0)

\* body, lower case and unsigned, is a literal float() accepts
IsFloat(body) ==
    \/ body \in {"inf", "infinity", "nan"}
    \/ IsDecimal(LeadingDigits(body), SubSeq(body, LeadingDigits(body) + 1, Len(body)))

FloatOf(t, ok) == [ok |-> ok, value |-> IF ok THEN t ELSE ""]

\* float(s): blanks stripped, an optional sign, then inf, infinity, nan or a
\* decimal literal (digits with an optional point, an optional exponent)
float(s) == FloatOf(strip(s), IsFloat(lower(Unsigned(strip(s)))))

\* line.split(',')
RECURSIVE split(_)
split(line) ==
    IF ~Contains(",", line) THEN <<line>>
    ELSE LET i == CHOOSE k \in 1..Len(line) :
                    CharAt(line, k) = "," /\ ~Contains(",", SubSeq(line, 1, k - 1))
         IN  <<SubSeq(line, 1, i - 1)>> \o split(SubSeq(line, i + 1, Len(line)))

\* [p.strip() for p in parts]
StripAll(parts) == [k \in 1..Len(parts) |-> strip(parts[k])]

_split_cfg_line(line) == StripAll(split(line))

\* models/signal_models.py : the dataclass defaults
ComtradeChannel(signal_type) ==
    [index |-> 0, name |-> "", phase |-> "", circuit_component |-> "", unit |-> "",
     multiplier |-> "1.0", offset |-> "0.0", skew |-> "0.0", min_val |-> "-99999.0",
     max_val |-> "99999.0", primary |-> "1.0", secondary |-> "1.0", ps_type |-> "P",
     signal_type |-> signal_type, normal_state |-> 0]

ComtradeConfig ==
    [station_name |-> "", rec_dev_id |-> "", rev_year |-> 1999, num_analog |-> 0,
     num_digital |-> 0, analog_channels |-> <<>>, digital_channels |-> <<>>,
     line_freq |-> "60.0", sampling_rates |-> <<>>, start_timestamp |-> "",
     trigger_timestamp |-> "", data_format |-> "ASCII", time_multiplier |-> "1.0"]

\* parts[idx] if len(parts) > idx else default
PartOr(parts, idx, default) == IF Len(parts) > idx THEN parts[idx + 1] ELSE default

\* int(s) where int accepts s, else default
IntElse(s, default) == Value({IF n.ok THEN n.value ELSE default : n \in {int(s)}})

\* float(s) where float accepts s, else default
FloatElse(s, default) == Value({IF f.ok THEN f.value ELSE default : f \in {float(s)}})

\* int(parts[idx]) where there is such a part and int accepts it, else default
IntPartOr(parts, idx, default) ==
    IF Len(parts) > idx THEN IntElse(parts[idx + 1], default) ELSE default

\* one of float_fields: float(parts[idx]) where there is such a part and
\* float accepts it, else the default
FloatPartOr(parts, idx, default) ==
    IF Len(parts) > idx THEN FloatElse(parts[idx + 1], default) ELSE default

\* the analog channel of the parts of a line
AnalogChannelOf(parts, default_idx) ==
    [ComtradeChannel("analog") EXCEPT
        !.index = IntPartOr(parts, 0, default_idx),
        !.name = PartOr(parts, 1, "A" \o ToString(default_idx)),
        !.phase = PartOr(parts, 2, ""),
        !.circuit_component = PartOr(parts, 3, ""),
        !.unit = PartOr(parts, 4, ""),
        !.multiplier = FloatPartOr(parts, 5, "1.0"),
        !.offset = FloatPartOr(parts, 6, "0.0"),
        !.skew = FloatPartOr(parts, 7, "0.0"),
        !.min_val = FloatPartOr(parts, 8, "-99999.0"),
        !.max_val = FloatPartOr(parts, 9, "99999.0"),
        !.primary = FloatPartOr(parts, 10, "1.0"),
        !.secondary = FloatPartOr(parts, 11, "1.0"),
        !.ps_type = PartOr(parts, 12, "P")]

_parse_analog_channel(line, default_idx) == AnalogChannelOf(_split_cfg_line(line), default_idx)

\* the digital channel of the parts of a line
DigitalChannelOf(parts, default_idx) ==
    [ComtradeChannel("binary") EXCEPT
        !.index = IntPartOr(parts, 0, default_idx),
        !.name = PartOr(parts, 1, "D" \o ToString(default_idx)),
        !.phase = PartOr(parts, 2, ""),
        !.circuit_component = PartOr(parts, 3, ""),
        !.normal_state = IntPartOr(parts, 4, 0)]

_parse_digital_channel(line, default_idx) == DigitalChannelOf(_split_cfg_line(line), default_idx)

\* one part p of line 2: ##A sets the analog count, ##D the digital count,
\* where int accepts the part without its last character
Counted(p, num_a, num_d) ==
    IF endswith(upper(p), "A")
    THEN [num_a |-> IntElse(SubSeq(p, 1, Len(p) - 1), num_a), num_d |-> num_d]
    ELSE IF endswith(upper(p), "D")
    THEN [num_a |-> num_a, num_d |-> IntElse(SubSeq(p, 1, Len(p) - 1), num_d)]
    ELSE [num_a |-> num_a, num_d |-> num_d]

\* line 2: the loop over parts[1:], from part k on (counting from 1)
RECURSIVE CountLoop(_, _, _)
CountLoop(parts, k, c) ==
    IF k > Len(parts) THEN c
    ELSE CountLoop(parts, k + 1, Counted(strip(parts[k]), c.num_a, c.num_d))

\* a lone TT that int accepts counts as analog channels
CountsOf(parts, c) ==
    IF c.num_a = 0 /\ c.num_d = 0 /\ Len(parts) = 1
    THEN [num_a |-> IntElse(parts[1], c.num_a), num_d |-> c.num_d]
    ELSE c

\* line 2: TT, ##A, ##D
ChannelsCounted(parts) == CountsOf(parts, CountLoop(parts, 2, [num_a |-> 0, num_d |-> 0]))

ChannelCounts(line) == ChannelsCounted(_split_cfg_line(line))

\* the channel loops: iteration i of range(n), reading lines[line_idx]
RECURSIVE AnalogLoop(_, _, _, _, _)
AnalogLoop(lines, i, n, line_idx, channels) ==
    IF i >= n \/ line_idx >= Len(lines)
    THEN [line_idx |-> line_idx, channels |-> channels]
    ELSE AnalogLoop(lines, i + 1, n, line_idx + 1,
                    Append(channels, _parse_analog_channel(lines[line_idx + 1], i + 1)))

RECURSIVE DigitalLoop(_, _, _, _, _)
DigitalLoop(lines, i, n, line_idx, channels) ==
    IF i >= n \/ line_idx >= Len(lines)
    THEN [line_idx |-> line_idx, channels |-> channels]
    ELSE DigitalLoop(lines, i + 1, n, line_idx + 1,
                     Append(channels, _parse_digital_channel(lines[line_idx + 1], i + 1)))

\* (rate, end_sample) when float and int accepted the two parts
RatePair(f, n) ==
    IF f.ok /\ n.ok THEN <<[rate |-> f.value, end_sample |-> n.value]>> ELSE <<>>

RateOfParts(parts) ==
    IF Len(parts) >= 2 THEN RatePair(float(parts[1]), int(parts[2])) ELSE <<>>

\* one sampling-rate line: (rate, end_sample) when float and int accept the
\* first two parts, nothing otherwise
RateOf(line) == RateOfParts(_split_cfg_line(line))

\* the sampling-rate loop without its end-of-lines test: lines[line_idx]
\* past the last line raises IndexError
RECURSIVE RateLoop_unguarded(_, _, _, _, _)
RateLoop_unguarded(lines, i, n, line_idx, rates) ==
    IF i >= n THEN [line_idx |-> line_idx, rates |-> rates, raised |-> ""]
    ELSE IF line_idx >= Len(lines)
    THEN [line_idx |-> line_idx, rates |-> rates, raised |-> "IndexError"]
    ELSE RateLoop_unguarded(lines, i + 1, n, line_idx + 1,
                            rates \o RateOf(lines[line_idx + 1]))

\* the sampling-rate loop: iteration i of range(max(num_rates, 1))
RECURSIVE RateLoop(_, _, _, _, _)
RateLoop(lines, i, n, line_idx, rates) ==
    IF i >= n \/ line_idx >= Len(lines)
    THEN [line_idx |-> line_idx, rates |-> rates, raised |-> ""]
    ELSE RateLoop(lines, i + 1, n, line_idx + 1, rates \o RateOf(lines[line_idx + 1]))

\* the data formats parse_cfg keeps; anything else becomes ASCII
DataFormats == {"ASCII", "BINARY", "BINARY32", "FLOAT32"}

\* lines[line_idx] when there is such a line
HasLine(lines, line_idx) == line_idx < Len(lines)

\* line_idx after lines[line_idx] was read, when there was such a line
Advance(lines, line_idx) == IF HasLine(lines, line_idx) THEN line_idx + 1 ELSE line_idx

\* lines[line_idx] when there is such a line, else the default
LineOr(lines, line_idx, default) ==
    IF HasLine(lines, line_idx) THEN lines[line_idx + 1] ELSE default

\* line 1: station_name, rec_dev_id, rev_year
Header(parts) ==
    [ComtradeConfig EXCEPT !.station_name = PartOr(parts, 0, ""),
                           !.rec_dev_id = PartOr(parts, 1, ""),
                           !.rev_year = IntPartOr(parts, 2, 1999)]

WithCounts(config, counts) ==
    [config EXCEPT !.num_analog = counts.num_a, !.num_digital = counts.num_d]

\* the time multiplier, where there is a line and float accepts it
ReadMultiplier(lines, config, line_idx) ==
    [raised |-> "",
     config |-> [config EXCEPT !.time_multiplier =
                    IF HasLine(lines, line_idx)
                    THEN FloatElse(lines[line_idx + 1], "1.0") ELSE "1.0"]]

\* the data format; anything parse_cfg does not keep becomes ASCII
FormatOf(fmt) == IF fmt \in DataFormats THEN fmt ELSE "ASCII"

ReadFormat(lines, config, line_idx) ==
    ReadMultiplier(lines,
                   [config EXCEPT !.data_format =
                        FormatOf(strip(upper(LineOr(lines, line_idx, "ASCII"))))],
                   Advance(lines, line_idx))

\* the two timestamps
ReadTrigger(lines, config, line_idx) ==
    ReadFormat(lines, [config EXCEPT !.trigger_timestamp = LineOr(lines, line_idx, "")],
               Advance(lines, line_idx))

ReadStart(lines, config, line_idx) ==
    ReadTrigger(lines, [config EXCEPT !.start_timestamp = LineOr(lines, line_idx, "")],
                Advance(lines, line_idx))

\* after the sampling-rate loop
AfterRates(lines, config, ra) ==
    IF ra.raised # "" THEN [raised |-> ra.raised, config |-> ComtradeConfig]
    ELSE ReadStart(lines, [config EXCEPT !.sampling_rates = ra.rates], ra.line_idx)

\* range(max(num_rates, 1))
AtLeastOne(num_rates) == IF num_rates > 1 THEN num_rates ELSE 1

\* the number of sampling rates, where there is a line and int accepts it,
\* then the sampling-rate loop
ReadRates(lines, config, line_idx) ==
    AfterRates(lines, config,
               RateLoop(lines, 0,
                        AtLeastOne(IF HasLine(lines, line_idx)
                                   THEN IntElse(lines[line_idx + 1], 0) ELSE 0),
                        Advance(lines, line_idx), <<>>))

\* the line frequency, where there is a line and float accepts it
ReadFrequency(lines, config, line_idx) ==
    ReadRates(lines,
              [config EXCEPT !.line_freq =
                    IF HasLine(lines, line_idx)
                    THEN FloatElse(lines[line_idx + 1], "60.0") ELSE "60.0"],
              Advance(lines, line_idx))

AfterDigital(lines, config, di) ==
    ReadFrequency(lines, [config EXCEPT !.digital_channels = di.channels], di.line_idx)

AfterAnalog(lines, config, an) ==
    AfterDigital(lines, [config EXCEPT !.analog_channels = an.channels],
                 DigitalLoop(lines, 0, config.num_digital, an.line_idx, <<>>))

ReadChannels(lines, config) ==
    AfterAnalog(lines, config, AnalogLoop(lines, 0, config.num_analog, 2, <<>>))

ParseLines(lines) ==
    IF Len(lines) < 2 THEN [raised |-> "ValueError", config |-> ComtradeConfig]
    ELSE ReadChannels(lines, WithCounts(Header(_split_cfg_line(lines[1])),
                                        ChannelCounts(lines[2])))

\* parse_cfg on a file of the given lines: lines = [line.strip() for line in f]
parse_cfg(text) == ParseLines([k \in 1..Len(text) |-> strip(text[k])])

(***************************************************************************)
(* core/comtrade_parser.py : ComtradeStandardTemplate                      *)
(***************************************************************************)
STANDARD_ANALOG_SIGNALS ==
    <<"IA", "IB", "IC", "IN", "I0", "I1", "I2",
      "VA", "VB", "VC", "VN", "V0", "V1", "V2", "P", "Q", "F">>

STANDARD_DIGITAL_SIGNALS ==
    <<"TRIP", "TRIP_A", "TRIP_B", "TRIP_C", "CLOSE", "RECLOSE",
      "21_PICKUP", "21_Z1", "21_Z2", "21_Z3", "50_PICKUP", "51_PICKUP",
      "67_FWD", "67_REV", "59_PICKUP", "27_PICKUP", "81_PICKUP",
      "87_OPERATE", "CB_OPEN", "CB_CLOSE", "ALARM", "COMM_FAIL">>

get_all_standard_signal_names == STANDARD_ANALOG_SIGNALS \o STANDARD_DIGITAL_SIGNALS

(***************************************************************************)
(* core/xrio_parser.py : classify_signal_function                          *)
(* classify_signal_function gives the ProtectionFunction member; the       *)
(* member's value comes from ProtectionFunctionValue.                      *)
(***************************************************************************)
FUNCTION_KEYWORDS ==
    << [func |-> "DISTANCE",
        keywords |-> <<"Z", "DIST", "21", "ZONE", "MHO", "QUAD", "REACH", "IMPEDANCE">>],
       [func |-> "OVERCURRENT",
        keywords |-> <<"OC", "50", "51", "OVERCURRENT", "I>", "I>>", "IINST", "TOC",
                       "DTOC", "IDMT">>],
       [func |-> "DIFFERENTIAL",
        keywords |-> <<"DIFF", "87", "RESTRAIN", "OPERATE", "BIAS">>],
       [func |-> "OVERVOLTAGE",
        keywords |-> <<"OV", "59", "V>", "V>>", "OVERVOLT">>],
       [func |-> "UNDERVOLTAGE",
        keywords |-> <<"UV", "27", "V<", "V<<", "UNDERVOLT">>],
       [func |-> "FREQUENCY",
        keywords |-> <<"FREQ", "81", "F<", "F>", "ROCOF", "DF/DT">>],
       [func |-> "DIRECTIONAL",
        keywords |-> <<"DIR", "67", "DIRECTIONAL", "ANGLE", "TORQUE">>],
       [func |-> "BREAKER_FAILURE",
        keywords |-> <<"BF", "50BF", "BREAKER", "CBF", "CB FAIL">>],
       [func |-> "RECLOSING",
        keywords |-> <<"RECL", "79", "AUTORECL", "AR", "RECLOSE">>],
       [func |-> "SYNCHROCHECK",
        keywords |-> <<"SYNC", "25", "SYNCHRO", "CHECK SYNC">>],
       [func |-> "METERING",
        keywords |-> <<"METER", "MEAS", "MEASURE", "MW", "MVAR", "PF", "KWH">>],
       [func |-> "COMMUNICATION",
        keywords |-> <<"COMM", "GOOSE", "SV", "IEC61850", "DNP", "MODBUS", "TRIP SEND">>] >>

\* any(k in s for k in ks)
AnyIn(ks, s) == \E i \in 1..Len(ks) : Contains(ks[i], s)

classify_signal_function(name) ==
    LET up == replace(replace(upper(name), "_", " "), "-", " ")
        hits == {i \in 1..Len(FUNCTION_KEYWORDS) : AnyIn(FUNCTION_KEYWORDS[i].keywords, up)}
    IN  IF hits # {}
        THEN FUNCTION_KEYWORDS[CHOOSE i \in hits : \A j \in hits : i <= j].func
        ELSE IF AnyIn(<<"IA", "IB", "IC", "IN", "I0", "I1", "I2">>, up) THEN "OVERCURRENT"
        ELSE IF AnyIn(<<"VA", "VB", "VC", "VN", "V0", "V1", "V2", "UA", "UB", "UC">>, up)
             THEN "OVERVOLTAGE"
        ELSE "UNKNOWN"

(***************************************************************************)
(* core/validator.py : name normalisation and matching                     *)
(***************************************************************************)
\* re.sub(r'[_\-\s\.]+', '', n)
RECURSIVE RemoveSeparators(_)
RemoveSeparators(n) ==
    IF n = "" THEN ""
    ELSE (IF Head(n) \in ({"_", "-", "."} \cup Whitespace) THEN "" ELSE Head(n))
         \o RemoveSeparators(Tail(n))

prefixes == <<"REL_", "DIG_", "ANA_", "BIN_", "CH_", "SIG_">>

\* the loop over prefixes, from the i-th on: n = n[len(prefix) - 1:]
RECURSIVE StripPrefixes(_, _)
StripPrefixes(n, i) ==
    IF i > Len(prefixes) THEN n
    ELSE IF startswith(n, replace(prefixes[i], "_", ""))
         THEN StripPrefixes(SubSeq(n, Len(prefixes[i]), Len(n)), i + 1)
         ELSE StripPrefixes(n, i + 1)

_normalize_name(name) == StripPrefixes(RemoveSeparators(strip(upper(name))), 1)

\* n[-2:]
LastTwo(n) == SubSeq(n, IF Len(n) > 2 THEN Len(n) - 1 ELSE 1, Len(n))

_extract_phase(name) ==
    LET n == upper(name)
    IN  IF endswith(n, "A") \/ Contains("PHA", n) \/ Contains("_A", n) THEN "A"
        ELSE IF endswith(n, "B") \/ Contains("PHB", n) \/ Contains("_B", n) THEN "B"
        ELSE IF endswith(n, "C") \/ Contains("PHC", n) \/ Contains("_C", n) THEN "C"
        ELSE IF Contains("N", LastTwo(n)) \/ Contains("NEUT", n) THEN "N"
        ELSE ""

_extract_signal_type_indicator(name) ==
    LET n == upper(name)
    IN  IF AnyIn(<<"VOLT", "V_", "_V", "VA", "VB", "VC", "UA", "UB", "UC", "TENSION">>, n)
        THEN "V"
        ELSE IF AnyIn(<<"CURR", "I_", "_I", "IA", "IB", "IC", "AMP", "CORR">>, n)
        THEN "I"
        ELSE ""

_fuzzy_match(name1, name2) ==
    LET n1 == _normalize_name(name1)
        n2 == _normalize_name(name2)
        phase1 == _extract_phase(n1)
        phase2 == _extract_phase(n2)
        type1 == _extract_signal_type_indicator(n1)
        type2 == _extract_signal_type_indicator(n2)
    IN  IF n1 = n2 THEN TRUE
        ELSE IF Contains(n1, n2) \/ Contains(n2, n1) THEN TRUE
        ELSE IF phase1 # "" /\ phase2 # "" /\ type1 # "" /\ type2 # ""
             THEN phase1 = phase2 /\ type1 = type2
        ELSE FALSE

\* Python's None is [none |-> TRUE]
_heuristic_match(xrio_name, signal_type) ==
    LET n == _normalize_name(xrio_name)
        phase == _extract_phase(n)
        sig_ind == _extract_signal_type_indicator(n)
        candidates == IF signal_type = "analog" THEN STANDARD_ANALOG_SIGNALS
                      ELSE STANDARD_DIGITAL_SIGNALS
        Hit(std) ==
            LET std_norm == _normalize_name(std)
            IN  \/ Contains(std_norm, n) \/ Contains(n, std_norm)
                \/ /\ signal_type = "analog" /\ phase # "" /\ sig_ind # ""
                   /\ Contains(sig_ind, upper(std)) /\ Contains(phase, upper(std))
        hits == {i \in 1..Len(candidates) : Hit(candidates[i])}
    IN  IF hits # {}
        THEN [none |-> FALSE, name |-> candidates[CHOOSE i \in hits : \A j \in hits : i <= j]]
        ELSE [none |-> TRUE, name |-> ""]

(***************************************************************************)
(* models/signal_models.py : ProtectionFunction values                     *)
(***************************************************************************)
ProtectionFunctionValue(member) ==
    CASE member = "DISTANCE" -> "Protección de distancia"
      [] member = "OVERCURRENT" -> "Sobrecorriente"
      [] member = "DIFFERENTIAL" -> "Diferencial"
      [] member = "OVERVOLTAGE" -> "Sobretensión"
      [] member = "UNDERVOLTAGE" -> "Subtensión"
      [] member = "FREQUENCY" -> "Frecuencia"
      [] member = "DIRECTIONAL" -> "Direccional"
      [] member = "BREAKER_FAILURE" -> "Falla de interruptor"
      [] member = "RECLOSING" -> "Recierre"
      [] member = "SYNCHROCHECK" -> "Verificación de sincronismo"
      [] member = "OVERLOAD" -> "Sobrecarga"
      [] member = "GENERAL" -> "General"
      [] member = "METERING" -> "Medición"
      [] member = "COMMUNICATION" -> "Comunicación"
      [] OTHER -> "Desconocido"

(***************************************************************************)
(* core/validator.py : the cascade                                         *)
(***************************************************************************)
CONF_EXACT == 100
CONF_ALIAS == 95
CONF_CONFIG == 70
CONF_HEURISTIC == 50
CONF_NEW == 0

ValidationResult(xrio_name, standard_name, match_type, confidence) ==
    [xrio_name |-> xrio_name, standard_name |-> standard_name,
     match_type |-> match_type, confidence |-> confidence]

_auto_add_alias_skipped(db, relay_name, standard_name, relay_model, signal_type, auto) ==
    [entries |-> db.entries, file |-> db.file]

_auto_add_alias_validated(db, relay_name, standard_name, relay_model, signal_type, auto) ==
    LET func == classify_signal_function(relay_name)
        entry == AliasEntry(relay_name, standard_name, relay_model, signal_type,
                            ProtectionFunctionValue(func), auto, auto)
        a == add(db, entry)
    IN  [entries |-> a.entries, file |-> a.file]

\* _auto_add_alias: the database after the call
_auto_add_alias(db, relay_name, standard_name, relay_model, signal_type, auto) ==
    LET func == classify_signal_function(relay_name)
        entry == AliasEntry(relay_name, standard_name, relay_model, signal_type,
                            ProtectionFunctionValue(func), auto, ~auto)
        a == add(db, entry)
    IN  [entries |-> a.entries, file |-> a.file]

\* [n.upper() for n in self._standard_names]
StandardUpper ==
    [i \in 1..Len(get_all_standard_signal_names) |-> upper(get_all_standard_signal_names[i])]

\* xrio_name.upper() in [n.upper() for n in self._standard_names]
InStandard(xrio_name) ==
    LET u == upper(xrio_name)
    IN  \E i \in 1..Len(StandardUpper) : u = StandardUpper[i]

\* the cascade with the alias lookup ahead of the catalog lookup
_validate_signal_alias_first(db, xrio_name, relay_model, signal_type, comtrade_config) ==
    LET alias_name == find_standard_for(db.entries, relay_model, xrio_name)
        channels == IF signal_type = "analog" THEN comtrade_config.analog_channels
                    ELSE comtrade_config.digital_channels
        fuzzy == {i \in 1..Len(channels) : _fuzzy_match(xrio_name, channels[i].name)}
        ch == channels[CHOOSE i \in fuzzy : \A j \in fuzzy : i <= j]
        best_match == _heuristic_match(xrio_name, signal_type)
    IN  IF ~alias_name.none /\ alias_name.name # ""
        THEN [result |-> ValidationResult(xrio_name, alias_name.name, "alias", CONF_ALIAS),
              db |-> db]
        ELSE IF InStandard(xrio_name)
        THEN [result |-> ValidationResult(xrio_name, xrio_name, "exact", CONF_EXACT),
              db |-> _auto_add_alias(db, xrio_name, xrio_name, relay_model, signal_type, TRUE)]
        ELSE IF comtrade_config.present /\ fuzzy # {}
        THEN [result |-> ValidationResult(xrio_name, ch.name, "fuzzy", CONF_CONFIG),
              db |-> _auto_add_alias(db, xrio_name, ch.name, relay_model, signal_type, TRUE)]
        ELSE IF ~best_match.none /\ best_match.name # ""
        THEN [result |-> ValidationResult(xrio_name, best_match.name, "fuzzy", CONF_HEURISTIC),
              db |-> db]
        ELSE [result |-> ValidationResult(xrio_name, "", "new", CONF_NEW), db |-> db]

\* the cascade recording an alias for a heuristic match as well
_validate_signal_learn_heuristic(db, xrio_name, relay_model, signal_type, comtrade_config) ==
    LET alias_name == find_standard_for(db.entries, relay_model, xrio_name)
        channels == IF signal_type = "analog" THEN comtrade_config.analog_channels
                    ELSE comtrade_config.digital_channels
        fuzzy == {i \in 1..Len(channels) : _fuzzy_match(xrio_name, channels[i].name)}
        ch == channels[CHOOSE i \in fuzzy : \A j \in fuzzy : i <= j]
        best_match == _heuristic_match(xrio_name, signal_type)
    IN  IF InStandard(xrio_name)
        THEN [result |-> ValidationResult(xrio_name, xrio_name, "exact", CONF_EXACT),
              db |-> _auto_add_alias(db, xrio_name, xrio_name, relay_model, signal_type, TRUE)]
        ELSE IF ~alias_name.none /\ alias_name.name # ""
        THEN [result |-> ValidationResult(xrio_name, alias_name.name, "alias", CONF_ALIAS),
              db |-> db]
        ELSE IF comtrade_config.present /\ fuzzy # {}
        THEN [result |-> ValidationResult(xrio_name, ch.name, "fuzzy", CONF_CONFIG),
              db |-> _auto_add_alias(db, xrio_name, ch.name, relay_model, signal_type, TRUE)]
        ELSE IF ~best_match.none /\ best_match.name # ""
        THEN [result |-> ValidationResult(xrio_name, best_match.name, "fuzzy", CONF_HEURISTIC),
              db |-> _auto_add_alias(db, xrio_name, best_match.name, relay_model,
                                     signal_type, TRUE)]
        ELSE [result |-> ValidationResult(xrio_name, "", "new", CONF_NEW), db |-> db]

\* the cascade resolving tier 3 to the last channel that passes the fuzzy test
_validate_signal_last_channel(db, xrio_name, relay_model, signal_type, comtrade_config) ==
    LET alias_name == find_standard_for(db.entries, relay_model, xrio_name)
        channels == IF signal_type = "analog" THEN comtrade_config.analog_channels
                    ELSE comtrade_config.digital_channels
        fuzzy == {i \in 1..Len(channels) : _fuzzy_match(xrio_name, channels[i].name)}
        ch == channels[CHOOSE i \in fuzzy : \A j \in fuzzy : i >= j]
        best_match == _heuristic_match(xrio_name, signal_type)
    IN  IF InStandard(xrio_name)
        THEN [result |-> ValidationResult(xrio_name, xrio_name, "exact", CONF_EXACT),
              db |-> _auto_add_alias(db, xrio_name, xrio_name, relay_model, signal_type, TRUE)]
        ELSE IF ~alias_name.none /\ alias_name.name # ""
        THEN [result |-> ValidationResult(xrio_name, alias_name.name, "alias", CONF_ALIAS),
              db |-> db]
        ELSE IF comtrade_config.present /\ fuzzy # {}
        THEN [result |-> ValidationResult(xrio_name, ch.name, "fuzzy", CONF_CONFIG),
              db |-> _auto_add_alias(db, xrio_name, ch.name, relay_model, signal_type, TRUE)]
        ELSE IF ~best_match.none /\ best_match.name # ""
        THEN [result |-> ValidationResult(xrio_name, best_match.name, "fuzzy", CONF_HEURISTIC),
              db |-> db]
        ELSE [result |-> ValidationResult(xrio_name, "", "new", CONF_NEW), db |-> db]

\* _validate_signal: the result and the database after the call
_validate_signal(db, xrio_name, relay_model, signal_type, comtrade_config) ==
    LET alias_name == find_standard_for(db.entries, relay_model, xrio_name)
        channels == IF signal_type = "analog" THEN comtrade_config.analog_channels
                    ELSE comtrade_config.digital_channels
        fuzzy == {i \in 1..Len(channels) : _fuzzy_match(xrio_name, channels[i].name)}
        ch == channels[CHOOSE i \in fuzzy : \A j \in fuzzy : i <= j]
        best_match == _heuristic_match(xrio_name, signal_type)
    IN  IF InStandard(xrio_name)
        THEN [result |-> ValidationResult(xrio_name, xrio_name, "exact", CONF_EXACT),
              db |-> _auto_add_alias(db, xrio_name, xrio_name, relay_model, signal_type, TRUE)]
        ELSE IF ~alias_name.none /\ alias_name.name # ""
        THEN [result |-> ValidationResult(xrio_name, alias_name.name, "alias", CONF_ALIAS),
              db |-> db]
        ELSE IF comtrade_config.present /\ fuzzy # {}
        THEN [result |-> ValidationResult(xrio_name, ch.name, "fuzzy", CONF_CONFIG),
              db |-> _auto_add_alias(db, xrio_name, ch.name, relay_model, signal_type, TRUE)]
        ELSE IF ~best_match.none /\ best_match.name # ""
        THEN [result |-> ValidationResult(xrio_name, best_match.name, "fuzzy", CONF_HEURISTIC),
              db |-> db]
        ELSE [result |-> ValidationResult(xrio_name, "", "new", CONF_NEW), db |-> db]

\* what the loops of validate carry: the database and the results so far
ResultsOf(db, results) == [db |-> db, results |-> results]

\* results.append(result) after one _validate_signal
Appended(acc, v) == ResultsOf(v.db, Append(acc.results, v.result))

\* validate: one loop over the names of the signals of one kind, from the i-th on
RECURSIVE ValidateLoop(_, _, _, _, _, _)
ValidateLoop(acc, names, i, relay_model, signal_type, comtrade_config) ==
    IF i > Len(names) THEN acc
    ELSE ValidateLoop(Appended(acc, _validate_signal(acc.db, names[i], relay_model,
                                                     signal_type, comtrade_config)),
                      names, i + 1, relay_model, signal_type, comtrade_config)

\* validate with the binary loop ahead of the analog loop
validate_binary_first(db, model, analog_signals, binary_signals, comtrade_config) ==
    ValidateLoop(ValidateLoop(ResultsOf(db, <<>>), binary_signals, 1,
                              IF model # "" THEN model ELSE "UNKNOWN", "binary",
                              comtrade_config),
                 analog_signals, 1, IF model # "" THEN model ELSE "UNKNOWN", "analog",
                 comtrade_config)

\* validate: the analog loop, then the binary loop; model is
\* xrio_data.relay.model and the signals are given by their names
validate(db, model, analog_signals, binary_signals, comtrade_config) ==
    ValidateLoop(ValidateLoop(ResultsOf(db, <<>>), analog_signals, 1,
                              IF model # "" THEN model ELSE "UNKNOWN", "analog",
                              comtrade_config),
                 binary_signals, 1, IF model # "" THEN model ELSE "UNKNOWN", "binary",
                 comtrade_config)

\* the keys of summary that hold a count
SummaryCounts == {"exact", "alias", "fuzzy", "new", "total"}

\* the counting loop of auto_validate_and_update, from result i on
RECURSIVE CountResults(_, _, _)
CountResults(summary, results, i) ==
    IF i > Len(results) THEN summary
    ELSE CountResults([k \in SummaryCounts |->
                          IF k = "total" \/ k = results[i].match_type
                          THEN summary[k] + 1 ELSE summary[k]],
                      results, i + 1)

\* the summary of the results validate returned
Summary(v) ==
    [db |-> v.db, results |-> v.results,
     counts |-> CountResults([k \in SummaryCounts |-> 0], v.results, 1)]

\* auto_validate_and_update: the database after the call, the results and
\* the counts of the summary
auto_validate_and_update(db, model, analog_signals, binary_signals, comtrade_config) ==
    Summary(validate(db, model, analog_signals, binary_signals, comtrade_config))

(***************************************************************************)
(* core/xrio_parser.py : XRIOParser.  An element of the parsed document is *)
(* [tag, attrib, text, children]: attrib is a record of the attributes,    *)
(* text the text before the first child ("" for none), children the child  *)
(* elements in document order.  A float is held as the literal float()     *)
(* accepted.  An extraction stage gives its result and, in raised, the     *)
(* exception that leaves it ("" when it returns).                          *)
(***************************************************************************)
Element(tag, attrib, text, children) ==
    [tag |-> tag, attrib |-> attrib, text |-> text, children |-> children]

\* the least number of a non-empty set
Least(S) == CHOOSE m \in S : \A x \in S : m <= x

\* el.get(k, default)
Get(el, k, default) == IF k \in DOMAIN el.attrib THEN el.attrib[k] ELSE default

\* a or b or ... over strings: the first that is not empty, else the last
RECURSIVE FirstTruthy(_)
FirstTruthy(values) ==
    IF Len(values) = 1 \/ values[1] # "" THEN values[1] ELSE FirstTruthy(Tail(values))

\* the position of the first c in s, 0 when there is none
IndexOfChar(s, c) ==
    IF Contains(c, s)
    THEN CHOOSE i \in 1..Len(s) : CharAt(s, i) = c /\ ~Contains(c, SubSeq(s, 1, i - 1))
    ELSE 0

\* _clean_tag: tag.split('}')[1] when the tag carries a namespace
_clean_tag(tag) ==
    IF ~Contains("}", tag) THEN tag
    ELSE LET rest == SubSeq(tag, IndexOfChar(tag, "}") + 1, Len(tag))
         IN  IF Contains("}", rest) THEN SubSeq(rest, 1, IndexOfChar(rest, "}") - 1) ELSE rest

\* el.iter(): the element and its descendants in document order
RECURSIVE Iter(_)
RECURSIVE IterAll(_)
Iter(el) == <<el>> \o IterAll(el.children)

IterAll(els) == IF els = <<>> THEN <<>> ELSE Iter(Head(els)) \o IterAll(Tail(els))

\* the child _get_text reads: element.find(child_tag), else the first child
\* whose tag is child_tag once the namespace is removed; 0 when there is none
ChildNamed(el, child_tag) ==
    LET direct == {i \in 1..Len(el.children) : el.children[i].tag = child_tag}
        clean == {i \in 1..Len(el.children) : _clean_tag(el.children[i].tag) = child_tag}
    IN  IF direct # {} THEN Least(direct) ELSE IF clean # {} THEN Least(clean) ELSE 0

_get_text(el, child_tag) ==
    LET i == ChildNamed(el, child_tag)
    IN  IF i # 0 /\ el.children[i].text # "" THEN strip(el.children[i].text) ELSE ""

\* the first child whose clean tag is tag, 0 when there is none
FirstChildTagged(el, tag) ==
    LET S == {i \in 1..Len(el.children) : _clean_tag(el.children[i].tag) = tag}
    IN  IF S = {} THEN 0 ELSE Least(S)

\* the text of the first EnumValue of enum_list whose EnumId is raw_val and
\* whose text is not empty; "" when there is none
EnumText(enum_list, raw_val) ==
    LET S == {i \in 1..Len(enum_list.children) :
                /\ _clean_tag(enum_list.children[i].tag) = "EnumValue"
                /\ "EnumId" \in DOMAIN enum_list.children[i].attrib
                /\ enum_list.children[i].attrib.EnumId = raw_val
                /\ enum_list.children[i].text # ""}
    IN  IF S = {} THEN "" ELSE enum_list.children[Least(S)].text

\* _resolve_parameter_value: the Value of a Parameter, through its EnumList
_resolve_parameter_value(param) ==
    LET raw_val == _get_text(param, "Value")
        e == FirstChildTagged(param, "EnumList")
    IN  IF raw_val = "" THEN ""
        ELSE IF e # 0 /\ EnumText(param.children[e], raw_val) # ""
        THEN strip(EnumText(param.children[e], raw_val))
        ELSE raw_val

\* the digits s ends with: the group of re.search(r'(\d+)$', s)
TrailingDigits(s) ==
    LET nondigits == {i \in 1..Len(s) : ~IsDigit(CharAt(s, i))}
        cut == IF nondigits = {} THEN 0
               ELSE CHOOSE m \in nondigits : \A x \in nondigits : x <= m
    IN  SubSeq(s, cut + 1, Len(s))

\* the number of digits of s from position i on
RECURSIVE DigitsRun(_, _)
DigitsRun(s, i) == IF i <= Len(s) /\ IsDigit(CharAt(s, i)) THEN 1 + DigitsRun(s, i + 1) ELSE 0

\* the length of a match of <first>\d*<tail> at position i of s, case
\* ignored, first a set of letters and tail a set of texts; 0 for no match
MatchAt(s, i, first, tail) ==
    LET d == DigitsRun(s, i + 1)
        t == IF i + d + 4 <= Len(s) THEN upper(SubSeq(s, i + 1 + d, i + d + 4)) ELSE ""
    IN  IF i <= Len(s) /\ upper(CharAt(s, i)) \in first /\ t \in tail THEN 1 + d + 4 ELSE 0

\* the group of re.search(r'(<first>\d*<tail>)', s, re.IGNORECASE), "" for no match
SearchBlock(s, first, tail) ==
    LET S == {i \in 1..Len(s) : MatchAt(s, i, first, tail) > 0}
    IN  IF S = {} THEN "" ELSE SubSeq(s, Least(S), Least(S) + MatchAt(s, Least(S), first, tail) - 1)

\* re.match(r'^<first>\d*<tail>$', tag, re.IGNORECASE)
MatchesBlock(tag, first, tail) == tag # "" /\ MatchAt(tag, 1, first, tail) = Len(tag)

\* the metadata blacklist of _is_metadata
BAD_SUBSTRINGS ==
    <<"MANUFACTURER", "STATION", "DEVICE", "PROTECTED OBJECT", "RESIDUAL FACTOR",
      "SAMPLE RATE", "SAMPLERATE", "FREQUENCY", "DATE", "TIME", "VERSION", "REVISION",
      "RECORDER", "TRIGGER", "HEADER", "SETTING", "LENGTH", "DURATION", "PREFAULT",
      "POSTFAULT", "HARDWARE", "LINE FREQ", "IED NAME", "SHORT NAME", "LONG NAME">>

BAD_EXACT ==
    {"ID", "NAME", "UNIT", "PHASE", "TYPE", "SERIAL", "MODEL", "LOCATION", "USER",
     "DESCRIPTION", "COMMENT"}

_is_metadata(name) ==
    LET up == strip(replace(upper(name), "_", " "))
    IN  name = "" \/ up \in BAD_EXACT \/ AnyIn(BAD_SUBSTRINGS, up)

\* models/signal_models.py : the dataclass defaults
AnalogSignal(index, xrio_block) ==
    [index |-> index, name |-> "", phase |-> "", component |-> "", unit |-> "",
     multiplier |-> "1.0", offset |-> "0.0", skew |-> "0.0", min_value |-> "0.0",
     max_value |-> "0.0", primary |-> "1.0", secondary |-> "1.0", scaling_ids |-> "P",
     description |-> "", status |-> "On", ps_type |-> "P", xrio_block |-> xrio_block,
     function |-> "UNKNOWN", standard_name |-> ""]

BinarySignal(index, xrio_block) ==
    [index |-> index, name |-> "", state |-> 0, xrio_block |-> xrio_block,
     function |-> "UNKNOWN", standard_name |-> "", description |-> ""]

\* the phase read off a signal name, "" when the name tells none
PhaseOfName(name) ==
    LET up == upper(name)
    IN  IF endswith(up, "A") \/ Contains("_A", up) \/ Contains("PH_A", up) THEN "A"
        ELSE IF endswith(up, "B") \/ Contains("_B", up) \/ Contains("PH_B", up) THEN "B"
        ELSE IF endswith(up, "C") \/ Contains("_C", up) \/ Contains("PH_C", up) THEN "C"
        ELSE IF Contains("N", LastTwo(up)) \/ Contains("NEUTRAL", up) THEN "N"
        ELSE ""

\* the component (V or I) read off a signal name and unit; current keeps
\* the component the signal has when neither tells
ComponentOf(name, unit, current) ==
    LET up == upper(name)
    IN  IF AnyIn(<<"VOLT", "V_", "_V", "UA", "UB", "UC">>, up) THEN "V"
        ELSE IF AnyIn(<<"CURR", "I_", "_I", "AMP">>, up) THEN "I"
        ELSE IF unit # "" /\ Contains("V", upper(unit)) THEN "V"
        ELSE IF unit # "" /\ Contains("A", upper(unit)) THEN "I"
        ELSE current

_autofill_analog_attributes(sig) ==
    [sig EXCEPT
        !.phase = IF sig.phase = "" /\ sig.name # "" THEN PhaseOfName(sig.name) ELSE sig.phase,
        !.component = IF sig.name # "" THEN ComponentOf(sig.name, sig.unit, sig.component)
                      ELSE sig.component,
        !.function = IF sig.function = "UNKNOWN" THEN classify_signal_function(sig.name)
                     ELSE sig.function]

\* the lower-case form of a clean tag contains one of the keys
TagHas(el, ks) == AnyIn(ks, lower(_clean_tag(el.tag)))

\* the name an element gives a signal: an attribute, else a child, else its tag
ElementName(el) ==
    FirstTruthy(<<Get(el, "ShortName", ""), Get(el, "shortName", ""),
                  Get(el, "name", ""), Get(el, "Name", ""), Get(el, "id", ""),
                  _get_text(el, "ShortName"), _get_text(el, "Name"),
                  _get_text(el, "name"), _clean_tag(el.tag)>>)

\* the description an element gives a signal
ElementDescription(el) ==
    FirstTruthy(<<Get(el, "UserText", ""), Get(el, "Description", ""),
                  Get(el, "LongName", ""), _get_text(el, "UserText"),
                  _get_text(el, "Description"), _get_text(el, "LongName"), "">>)

\* float(val_str) when val_str is there and float accepts it, else the
\* value the attribute has
FloatOr(val_str, current) ==
    Value({IF val_str # "" /\ f.ok THEN f.value ELSE current : f \in {float(val_str)}})

\* the text of the attribute or child named attr or cap
NumberText(el, attr, cap) ==
    FirstTruthy(<<Get(el, attr, ""), Get(el, cap, ""), _get_text(el, attr),
                  _get_text(el, cap)>>)

\* phase and component detected from the name and unit the signal has
AutoDetect(sig) ==
    [sig EXCEPT
        !.phase = IF sig.phase = "" /\ sig.name # "" THEN PhaseOfName(sig.name) ELSE sig.phase,
        !.component = IF sig.name # "" THEN ComponentOf(sig.name, sig.unit, sig.component)
                      ELSE sig.component]

\* the classification of the name the signal has
Classified(sig) == [sig EXCEPT !.function = classify_signal_function(sig.name)]

_parse_analog_element(el, idx, block) ==
    Classified(
        [AutoDetect([AnalogSignal(idx, block) EXCEPT
                        !.name = ElementName(el),
                        !.description = ElementDescription(el),
                        !.unit = FirstTruthy(<<Get(el, "unit", ""), Get(el, "Unit", ""),
                                               _get_text(el, "Unit"), _get_text(el, "unit")>>),
                        !.phase = FirstTruthy(<<Get(el, "phase", ""), Get(el, "Phase", ""),
                                                _get_text(el, "Phase")>>)])
         EXCEPT
            !.multiplier = FloatOr(NumberText(el, "multiplier", "Multiplier"), "1.0"),
            !.offset = FloatOr(NumberText(el, "offset", "Offset"), "0.0"),
            !.min_value = FloatOr(NumberText(el, "min_value", "Min_value"), "0.0"),
            !.max_value = FloatOr(NumberText(el, "max_value", "Max_value"), "0.0"),
            !.primary = FloatOr(NumberText(el, "primary", "Primary"), "1.0"),
            !.secondary = FloatOr(NumberText(el, "secondary", "Secondary"), "1.0")])

\* the attributes of el whose lower-case name holds the word and none of
\* the words tested before it in the elif chain
AttrsOf(el, word, before) ==
    {a \in DOMAIN el.attrib : Contains(word, lower(a)) /\ ~AnyIn(before, lower(a))}

\* the value the loop over el.attrib leaves for one kind of attribute; the
\* documents explored carry at most one attribute of a kind
AttrValue(el, word, before, default) ==
    IF AttrsOf(el, word, before) = {} THEN default
    ELSE el.attrib[CHOOSE a \in AttrsOf(el, word, before) : TRUE]

\* the name a generic element gives: an attribute, else its text, else its tag
GenericName(el) ==
    FirstTruthy(<<Get(el, "name", ""), Get(el, "Name", ""), Get(el, "id", ""),
                  IF el.text # "" THEN strip(el.text) ELSE "", _clean_tag(el.tag)>>)

_parse_analog_from_generic(el, idx, block) ==
    Classified(
        [AnalogSignal(idx, block) EXCEPT
            !.name = GenericName(el),
            !.unit = AttrValue(el, "unit", <<>>, ""),
            !.phase = AttrValue(el, "phase", <<"unit">>, ""),
            !.primary = FloatOr(AttrValue(el, "primary", <<"unit", "phase">>, ""), "1.0"),
            !.secondary = FloatOr(AttrValue(el, "secondary", <<"unit", "phase", "primary">>, ""),
                                  "1.0")])

\* int(state_str) when state_str is there and int accepts it, else 0
StateOf(state_str) ==
    Value({IF state_str # "" /\ n.ok THEN n.value ELSE 0 : n \in {int(state_str)}})

_parse_binary_element(el, idx, block) ==
    Classified(
        [BinarySignal(idx, block) EXCEPT
            !.name = ElementName(el),
            !.description = ElementDescription(el),
            !.state = StateOf(FirstTruthy(<<Get(el, "state", ""), Get(el, "normalState", ""),
                                            Get(el, "NormalState", "")>>))])

_parse_binary_from_generic(el, idx, block) ==
    Classified([BinarySignal(idx, block) EXCEPT !.name = GenericName(el)])

\* the candidate parsed the way a strategy parses it
ParseCandidate(how, el, idx, block) ==
    CASE how = "analog_element" -> _parse_analog_element(el, idx, block)
      [] how = "analog_generic" -> _parse_analog_from_generic(el, idx, block)
      [] how = "binary_element" -> _parse_binary_element(el, idx, block)
      [] how = "binary_generic" -> _parse_binary_from_generic(el, idx, block)

\* what an extraction loop carries: the signals so far and the next index
Extracted(signals, idx) == [signals |-> signals, idx |-> idx]

\* a parsed signal is kept, and idx advanced, when its name is not empty
\* and not metadata
Keep(acc, sig) ==
    IF sig.name # "" /\ ~_is_metadata(sig.name)
    THEN Extracted(Append(acc.signals, sig), acc.idx + 1)
    ELSE acc

\* a strategy's loop over its candidates from the i-th on
RECURSIVE KeepSignals(_, _, _, _, _)
KeepSignals(how, cands, i, block, acc) ==
    IF i > Len(cands) THEN acc
    ELSE KeepSignals(how, cands, i + 1, block,
                     Keep(acc, ParseCandidate(how, cands[i], acc.idx, block)))

\* the elements of a sequence that satisfy a test, in order
Having(els, Test(_)) == SelectSeq(els, Test)

\* some signal already extracted names block as its origin
FromBlock(signals, block) == \E i \in 1..Len(signals) : signals[i].xrio_block = block

\* one record of data_map: what the Parameters of one index have given so far
Datum(index) ==
    [index |-> index, has_name |-> FALSE, name |-> "", has_primary |-> FALSE,
     primary |-> "", has_status |-> FALSE, status |-> "", has_unit |-> FALSE, unit |-> ""]

\* data_map[idx_int], made first when the index is new
DatumOf(data_map, idx_int) ==
    IF idx_int \in Keys(data_map) THEN data_map[IndexOf(data_map, idx_int)].entry
    ELSE Datum(idx_int)

\* the attribute a Parameter sets by its prefix
WithValue(d, prefix, p_val) ==
    IF prefix = "NAME" THEN [d EXCEPT !.has_name = TRUE, !.name = p_val]
    ELSE IF prefix = "NOMVALUE" THEN [d EXCEPT !.has_primary = TRUE, !.primary = p_val]
    ELSE IF prefix = "OPERATION" THEN [d EXCEPT !.has_status = TRUE, !.status = p_val]
    ELSE d

\* the unit a Parameter sets by its Unit child
WithUnit(d, param) ==
    LET u == {k \in 1..Len(param.children) : param.children[k].tag = "Unit"}
    IN  IF u # {} /\ param.children[Least(u)].text # ""
        THEN [d EXCEPT !.has_unit = TRUE, !.unit = strip(param.children[Least(u)].text)]
        ELSE d

\* what the Parameter loop carries: data_map and the exception that ended it
Collected(data_map, raised) == [data_map |-> data_map, raised |-> raised]

\* one Parameter whose name ends in idx_str enters data_map; int(idx_str)
\* is not guarded
Collect(c, param, prefix, idx_int) ==
    IF ~idx_int.ok THEN Collected(c.data_map, "ValueError")
    ELSE Collected(DictSet(c.data_map, idx_int.value,
                       WithUnit(WithValue(DatumOf(c.data_map, idx_int.value), prefix,
                                          _resolve_parameter_value(param)), param)), "")

\* the Parameter p_name names, by the digits idx_str it ends with
CollectNamed(c, param, p_name, idx_str) ==
    IF idx_str = "" THEN c
    ELSE Collect(c, param, upper(SubSeq(p_name, 1, Len(p_name) - Len(idx_str))), int(idx_str))

\* one Parameter element of the loop, p_name its name
CollectParameter(c, param, p_name) == CollectNamed(c, param, p_name, TrailingDigits(p_name))

\* the Parameter loop of the indexed encoding, from element i of
\* target_block.iter() on
RECURSIVE CollectParameters(_, _, _)
CollectParameters(els, i, c) ==
    IF i > Len(els) \/ c.raised # "" THEN c
    ELSE IF _clean_tag(els[i].tag) # "Parameter" THEN CollectParameters(els, i + 1, c)
    ELSE CollectParameters(els, i + 1, CollectParameter(c, els[i], _get_text(els[i], "Name")))

\* the numbers of a finite set in increasing order: sorted(...)
RECURSIVE Sorted(_)
Sorted(S) == IF S = {} THEN <<>> ELSE <<Least(S)>> \o Sorted(S \ {Least(S)})

\* float(d['primary']) when the index has a NomValue float accepts, else the default
PrimaryOf(d) == IF d.has_primary THEN FloatOr(d.primary, "1.0") ELSE "1.0"

\* the signal made of one record of data_map
IndexedSignal(d, block_name) ==
    _autofill_analog_attributes(
        [AnalogSignal(d.index, block_name) EXCEPT
            !.name = d.name,
            !.primary = PrimaryOf(d),
            !.unit = IF d.has_unit THEN d.unit ELSE "",
            !.status = IF d.has_status THEN d.status ELSE "On"])

\* the indices of data_map a signal is made of: those whose name is there
\* and not empty
Named_any(data_map) == Keys(data_map)

Named(data_map) ==
    {k \in Keys(data_map) : DatumOf(data_map, k).has_name /\ DatumOf(data_map, k).name # ""}

\* the signals of data_map, by increasing index
SignalsOf(data_map, indices, block_name) ==
    [j \in 1..Len(indices) |-> IndexedSignal(DatumOf(data_map, indices[j]), block_name)]

IndexedSignals(data_map, block_name) ==
    SignalsOf(data_map, Sorted(Named(data_map)), block_name)

\* the block whose Parameters are read: the child Block named General, else el
TargetBlock(el) ==
    LET S == {i \in 1..Len(el.children) :
                /\ _clean_tag(el.children[i].tag) = "Block"
                /\ upper(_get_text(el.children[i], "Name")) = "GENERAL"}
    IN  IF S = {} THEN el ELSE el.children[Least(S)]

IsAnalogChannel(el) ==
    lower(_clean_tag(el.tag)) \in {"channel", "signal", "analogchannel", "analogsignal"}

IsAnalogLike(el) == TagHas(el, <<"input", "output", "ainput", "aoutput", "analog">>)

\* a direct child the lax strategy takes: no settings tag, and a scaling attribute
IsScaled(el) ==
    /\ ~TagHas(el, <<"setting", "param", "header", "info", "config">>)
    /\ \/ Get(el, "primary", "") # "" \/ Get(el, "Primary", "") # ""
       \/ Get(el, "multiplier", "") # "" \/ Get(el, "Multiplier", "") # ""

\* the signals of a block of the indexed encoding join the output; they
\* carry their own index, and idx advances by their number
JoinIndexed(acc, indexed) == Extracted(acc.signals \o indexed, acc.idx + Len(indexed))

\* the third strategy runs when the second gave the block no signal
AnalogFallback(el, tag, acc) ==
    IF FromBlock(acc.signals, tag) THEN acc
    ELSE KeepSignals("analog_generic", Having(el.children, IsScaled), 1, tag, acc)

\* an element whose tag is A<digits>RADR: the three strategies
AnalogTagged(el, tag, acc) ==
    IF Having(Iter(el), IsAnalogChannel) # <<>>
    THEN KeepSignals("analog_element", Having(Iter(el), IsAnalogChannel), 1, tag, acc)
    ELSE AnalogFallback(el, tag,
             KeepSignals("analog_element", Having(Iter(el), IsAnalogLike), 1, tag, acc))

\* what _extract_analog_signals has when it ends: the signals, or the exception
Outcome(signals, raised) == [signals |-> signals, raised |-> raised]

\* _extract_analog_signals: the loop over all_elements from the i-th on
RECURSIVE AnalogFrom(_, _, _)
RECURSIVE AnalogBlock(_, _, _, _, _)
AnalogFrom(all_elements, i, acc) ==
    IF i > Len(all_elements) THEN Outcome(acc.signals, "")
    ELSE IF _clean_tag(all_elements[i].tag) = "Block"
    THEN AnalogBlock(all_elements, i, acc,
                     SearchBlock(_get_text(all_elements[i], "Name"), {"A"}, {"RADR"}),
                     CollectParameters(Iter(TargetBlock(all_elements[i])), 1,
                                       Collected(<<>>, "")))
    ELSE IF MatchesBlock(_clean_tag(all_elements[i].tag), {"A"}, {"RADR"})
    THEN AnalogFrom(all_elements, i + 1,
                    AnalogTagged(all_elements[i], _clean_tag(all_elements[i].tag), acc))
    ELSE AnalogFrom(all_elements, i + 1, acc)

\* a Block element: the indexed encoding when its Name holds A<digits>RADR
AnalogBlock(all_elements, i, acc, match_abb, collected) ==
    IF match_abb = "" THEN AnalogFrom(all_elements, i + 1, acc)
    ELSE IF collected.raised # "" THEN Outcome(acc.signals, collected.raised)
    ELSE AnalogFrom(all_elements, i + 1,
                    JoinIndexed(acc, IndexedSignals(collected.data_map, upper(match_abb))))

\* _extract_analog_signals (_fallback_extract_analog gives no signal)
_extract_analog_signals(root) == AnalogFrom(Iter(root), 1, Extracted(<<>>, 1))

IsBinaryChannel(el) ==
    lower(_clean_tag(el.tag))
        \in {"channel", "signal", "binarychannel", "binarysignal", "status", "digital"}

IsBinaryLike(el) == TagHas(el, <<"input", "output", "binary", "digital">>)

IsNoSetting(el) == ~TagHas(el, <<"setting", "param", "header">>)

\* the fallback runs when the second strategy gave the block no signal
BinaryFallback(el, tag, acc) ==
    IF FromBlock(acc.signals, tag) THEN acc
    ELSE KeepSignals("binary_generic", Having(el.children, IsNoSetting), 1, tag, acc)

\* an element whose tag is B<digits>RBDR: the three strategies
BinaryTagged(el, tag, acc) ==
    IF Having(Iter(el), IsBinaryChannel) # <<>>
    THEN KeepSignals("binary_element", Having(Iter(el), IsBinaryChannel), 1, tag, acc)
    ELSE BinaryFallback(el, tag,
             KeepSignals("binary_element", Having(Iter(el), IsBinaryLike), 1, tag, acc))

\* _extract_binary_signals: the loop over all_elements from the i-th on
RECURSIVE BinaryFrom(_, _, _)
BinaryFrom(all_elements, i, acc) ==
    IF i > Len(all_elements) THEN acc.signals
    ELSE IF MatchesBlock(_clean_tag(all_elements[i].tag), {"B"}, {"RBDR"})
    THEN BinaryFrom(all_elements, i + 1,
                    BinaryTagged(all_elements[i], _clean_tag(all_elements[i].tag), acc))
    ELSE BinaryFrom(all_elements, i + 1, acc)

_extract_binary_signals(root) == BinaryFrom(Iter(root), 1, Extracted(<<>>, 1))

\* models/signal_models.py : DisturbanceReportSignal
DisturbanceReportSignal(channel, name, description, trig_operation, trig_level, indication_mask, set_led, block) ==
    [channel |-> channel, name |-> name, description |-> description,
     trig_operation |-> trig_operation, trig_level |-> trig_level,
     indication_mask |-> indication_mask, set_led |-> set_led, block |-> block]

\* root.iter() with getparent(): the element, its parent, and whether it has one
RECURSIVE IterParents(_, _, _)
RECURSIVE IterParentsAll(_, _)
IterParents(el, parent, has_parent) ==
    <<[el |-> el, parent |-> parent, has_parent |-> has_parent]>>
        \o IterParentsAll(el.children, el)

IterParentsAll(els, parent) ==
    IF els = <<>> THEN <<>>
    ELSE IterParents(Head(els), parent, TRUE) \o IterParentsAll(Tail(els), parent)

\* the B<digits>RBDR name an element carries in its Id, else in its Name
\* child, as written there; "" when it carries none
FoundBlockName(parent) ==
    LET in_id == SearchBlock(Get(parent, "Id", ""), {"B"}, {"RBDR"})
    IN  IF in_id # "" THEN in_id
        ELSE SearchBlock(_get_text(parent, "Name"), {"B"}, {"RBDR"})

\* the (block, parent name) pairs of step 1: Blocks with Id ID_GENERAL
\* under a B<digits>RBDR element
RECURSIVE TargetBlocks(_, _)
TargetBlocks(nodes, i) ==
    IF i > Len(nodes) THEN <<>>
    ELSE LET n == nodes[i]
         IN  IF /\ _clean_tag(n.el.tag) = "Block"
                /\ Get(n.el, "Id", "") = "ID_GENERAL"
                /\ n.has_parent
                /\ FoundBlockName(n.parent) # ""
             THEN <<[block |-> n.el, name |-> FoundBlockName(n.parent)]>>
                      \o TargetBlocks(nodes, i + 1)
             ELSE TargetBlocks(nodes, i + 1)

\* the value of a Parameter as the disturbance stage resolves it: the text
\* of the first EnumValue of the EnumList when its EnumId is the value and
\* its text is not empty
FinalValue(param) ==
    LET p_val_raw == _get_text(param, "Value")
        e == FirstChildTagged(param, "EnumList")
        S == {i \in 1..Len(param.children[e].children) :
                /\ _clean_tag(param.children[e].children[i].tag) = "EnumValue"
                /\ "EnumId" \in DOMAIN param.children[e].children[i].attrib
                /\ param.children[e].children[i].attrib.EnumId = p_val_raw}
    IN  IF e # 0 /\ S # {} /\ param.children[e].children[Least(S)].text # ""
        THEN param.children[e].children[Least(S)].text
        ELSE p_val_raw

\* params_map of one target block, from its i-th child on
RECURSIVE ParamsMap(_, _, _)
ParamsMap(children, i, params_map) ==
    IF i > Len(children) THEN params_map
    ELSE LET param == children[i]
             p_name_tag == _get_text(param, "Name")
         IN  IF _clean_tag(param.tag) # "Parameter" \/ p_name_tag = ""
             THEN ParamsMap(children, i + 1, params_map)
             ELSE ParamsMap(children, i + 1,
                      DictSet(params_map, p_name_tag,
                              [val |-> FinalValue(param),
                               desc |-> _get_text(param, "Description")]))

\* f"{i:02d}"
Pad2(i) == IF i < 10 THEN "0" \o ToString(i) ELSE ToString(i)

\* the parameter <base><nn>, or <base><n> when that one has no value
ChannelParam(params_map, base, i) ==
    LET padded == base \o Pad2(i)
        plain == base \o ToString(i)
        first == IF padded \in Keys(params_map)
                 THEN params_map[IndexOf(params_map, padded)].entry
                 ELSE [val |-> "", desc |-> ""]
    IN  IF first.val = "" /\ plain \in Keys(params_map)
        THEN params_map[IndexOf(params_map, plain)].entry
        ELSE first

\* the key of channel i's name: NAME<i>, else NAME<ii>
NameKey(params_map, i) ==
    IF ("NAME" \o ToString(i)) \in Keys(params_map) THEN "NAME" \o ToString(i)
    ELSE "NAME" \o Pad2(i)

MaxChannel == 96

\* step 3 for one block: the channels i..96
RECURSIVE ChannelsFrom(_, _, _)
ChannelsFrom(params_map, block_name, i) ==
    IF i > MaxChannel THEN <<>>
    ELSE IF NameKey(params_map, i) \notin Keys(params_map)
    THEN ChannelsFrom(params_map, block_name, i + 1)
    ELSE LET name_data == params_map[IndexOf(params_map, NameKey(params_map, i))].entry
         IN  <<DisturbanceReportSignal(i, name_data.val, name_data.desc,
                   ChannelParam(params_map, "TrigDR", i).val,
                   ChannelParam(params_map, "TrigLevel", i).val,
                   ChannelParam(params_map, "IndicationMa", i).val,
                   ChannelParam(params_map, "SetLED", i).val, block_name)>>
                 \o ChannelsFrom(params_map, block_name, i + 1)

RECURSIVE DisturbanceFrom(_, _)
DisturbanceFrom(target_blocks, k) ==
    IF k > Len(target_blocks) THEN <<>>
    ELSE ChannelsFrom(ParamsMap(target_blocks[k].block.children, 1, <<>>),
                      target_blocks[k].name, 1)
             \o DisturbanceFrom(target_blocks, k + 1)

_extract_disturbance_report_signals(root) ==
    DisturbanceFrom(TargetBlocks(IterParents(root, root, FALSE), 1), 1)

\* s.split(c) for a one-character c
RECURSIVE SplitOn(_, _)
SplitOn(s, c) ==
    IF ~Contains(c, s) THEN <<s>>
    ELSE <<SubSeq(s, 1, IndexOfChar(s, c) - 1)>>
             \o SplitOn(SubSeq(s, IndexOfChar(s, c) + 1, Len(s)), c)

\* models/signal_models.py : RelayReference
RelayReference ==
    [manufacturer |-> "", model |-> "", firmware |-> "", serial |-> "",
     station_name |-> "", device_id |-> "", description |-> ""]

\* el.text.strip() if el.text else ""
TextOf(el) == IF el.text # "" THEN strip(el.text) ELSE ""

\* the text tag_map gives for a tag: of the first element with that tag in
\* lower case, its text or else its value attribute; "" when there is none
TagText(all_elements, tag) ==
    LET S == {i \in 1..Len(all_elements) : lower(_clean_tag(all_elements[i].tag)) = tag}
        el == all_elements[Least(S)]
    IN  IF S = {} THEN ""
        ELSE IF TextOf(el) # "" THEN TextOf(el)
        ELSE Get(el, "value", Get(el, "Value", ""))

\* the first text the tags of one relay field give
RECURSIVE FieldText(_, _)
FieldText(all_elements, tags) ==
    IF tags = <<>> THEN ""
    ELSE IF TagText(all_elements, Head(tags)) # "" THEN TagText(all_elements, Head(tags))
    ELSE FieldText(all_elements, Tail(tags))

\* the parts of the first ForeignId among the first 100 elements that holds
\* an IedIdentifier, <<>> when there is none
ForeignParts(all_elements) ==
    LET S == {i \in 1..Len(all_elements) :
                /\ i <= 100
                /\ lower(_clean_tag(all_elements[i].tag)) = "foreignid"
                /\ Contains("IEDIDENTIFIER", upper(TextOf(all_elements[i])))}
        parts == SplitOn(TextOf(all_elements[Least(S)]), "|")
    IN  IF S = {} THEN <<>> ELSE [k \in 1..Len(parts) |-> strip(parts[k])]

HasText(el) == TextOf(el) # ""

\* the children with text of the config, setting and header elements
RECURSIVE ConfigChildren(_, _)
ConfigChildren(all_elements, i) ==
    IF i > Len(all_elements) THEN <<>>
    ELSE (IF AnyIn(<<"config", "setting", "header">>, lower(_clean_tag(all_elements[i].tag)))
          THEN SelectSeq(all_elements[i].children, HasText)
          ELSE <<>>) \o ConfigChildren(all_elements, i + 1)

\* the text of the first of these children whose tag holds one of the keys
FirstConfigText(children, ks) ==
    LET S == {i \in 1..Len(children) : AnyIn(ks, lower(_clean_tag(children[i].tag)))}
    IN  IF S = {} THEN "" ELSE TextOf(children[Least(S)])

\* the root attributes whose name holds type or model; the documents
\* explored carry at most one
ModelAttrs(root) ==
    {a \in DOMAIN root.attrib : Contains("type", lower(a)) \/ Contains("model", lower(a))}

_extract_relay_reference(root) ==
    LET all_elements == Iter(root)
        parts == ForeignParts(all_elements)
        model1 == IF Len(parts) >= 2 THEN parts[2] ELSE ""
        model2 == IF model1 = "" /\ ModelAttrs(root) # {}
                  THEN root.attrib[CHOOSE a \in ModelAttrs(root) : TRUE] ELSE model1
        cfg == ConfigChildren(all_elements, 1)
        manufacturer1 == FieldText(all_elements, <<"manufacturer", "vendor", "make">>)
        manufacturer2 == IF manufacturer1 = ""
                         THEN FirstConfigText(cfg, <<"manuf", "vendor", "make">>)
                         ELSE manufacturer1
        model3 == IF model2 = "" THEN FirstConfigText(cfg, <<"model", "type", "device">>)
                  ELSE model2
    IN  [manufacturer |-> IF manufacturer2 = "" /\ model3 # ""
                             /\ AnyIn(<<"REC", "RED", "REB", "REL", "REG">>, upper(model3))
                          THEN "ABB" ELSE manufacturer2,
         model |-> model3,
         firmware |-> IF Len(parts) >= 3 THEN parts[3] ELSE "",
         serial |-> FieldText(all_elements, <<"serial", "serialnumber", "serial_number">>),
         station_name |-> FieldText(all_elements,
                              <<"stationname", "station", "substation", "station_name">>),
         device_id |-> FieldText(all_elements,
                           <<"deviceid", "device_id", "devid", "ieddesc", "iedname", "name">>),
         description |-> FieldText(all_elements, <<"description", "desc", "comment">>)]

\* _detect_namespaces; the prefix None of nsmap is held as ""
_detect_namespaces(nsmap) ==
    IF "" \in Keys(nsmap)
    THEN DictSet(DictDel(nsmap, ""), "default", nsmap[IndexOf(nsmap, "")].entry)
    ELSE nsmap

\* etree.tostring(el): the element written out with its text and its
\* children nested (attributes and indentation left out)
RECURSIVE tostring(_)
RECURSIVE tostringAll(_)
tostring(el) ==
    "<" \o el.tag \o ">" \o el.text \o tostringAll(el.children) \o "</" \o el.tag \o ">"

tostringAll(els) == IF els = <<>> THEN "" ELSE tostring(Head(els)) \o tostringAll(Tail(els))

\* _extract_raw_blocks: the loop over root.iter() from the i-th element on
RECURSIVE RawBlocksFrom(_, _, _)
RawBlocksFrom(all_elements, i, blocks) ==
    IF i > Len(all_elements) THEN blocks
    ELSE LET el == all_elements[i]
             tag == _clean_tag(el.tag)
         IN  IF \/ MatchesBlock(tag, {"A", "B"}, {"RADR", "RBDR"})
                \/ Contains("config", lower(tag))
                \/ Contains("header", lower(tag))
             THEN RawBlocksFrom(all_elements, i + 1, DictSet(blocks, tag, tostring(el)))
             ELSE RawBlocksFrom(all_elements, i + 1, blocks)

_extract_raw_blocks(root) == RawBlocksFrom(Iter(root), 1, <<>>)

\* models/signal_models.py : XRIOData
XRIOData(file_path) ==
    [relay |-> RelayReference, analog_signals |-> <<>>, binary_signals |-> <<>>,
     disturbance_report_signals |-> <<>>, raw_xml_blocks |-> <<>>, file_path |-> file_path]

(***************************************************************************)
(* The inputs explored                                                     *)
(***************************************************************************)
\* signal names of an XRIO inventory; the last is a bare prefix
SignalNames == {"IA", "ia", "X1", "IA_2", "CH_"}

\* xrio_data.relay.model
RelayModels == {"", "M"}

\* comtrade_config: None, or a loaded configuration
NoConfig == [present |-> FALSE, analog_channels |-> <<>>, digital_channels |-> <<>>]

ConfigA ==
    [present |-> TRUE,
     analog_channels |-> <<[name |-> "X1_MAG"], [name |-> "IA_MAG"], [name |-> "X1"]>>,
     digital_channels |-> <<[name |-> "BIN_X1"]>>]

\* a configuration whose first analog channel has no name, as parse_cfg
\* gives for a channel line with an empty second field
ConfigE ==
    [present |-> TRUE,
     analog_channels |-> <<[name |-> ""], [name |-> "IA_MAG"]>>,
     digital_channels |-> <<>>]

Configs == {NoConfig, ConfigA, ConfigE}

\* entries a curator adds through the dictionary dialog (auto_detected = False)
CuratorEntries ==
    { AliasEntry("X1", "IA", "N", "analog", "Sobrecorriente", FALSE, TRUE),
      AliasEntry("X1", "IB", "M", "analog", "Sobrecorriente", FALSE, FALSE),
      AliasEntry("X1", "", "M", "analog", "General", FALSE, FALSE),
      AliasEntry("x1", "IC", "N", "analog", "Sobrecorriente", FALSE, TRUE),
      AliasEntry("IA", "VA", "M", "analog", "General", FALSE, TRUE) }

\* the (model, name) pairs remove and find_standard_for are called with
QueryModels == {"M", "N", "UNKNOWN"}
QueryNames == {"X1", "x1", "IA", "ia"}

\* backing files found at construction: none, one written by an earlier
\* session, and one edited by hand whose member key differs from its record
NoFile == [exists |-> FALSE, json |-> "", raw |-> <<>>]

SessionFile ==
    save(<<[key |-> "N::X1",
            entry |-> AliasEntry("X1", "IA", "N", "analog", "Sobrecorriente", FALSE, TRUE)]>>)

EditedFile ==
    [exists |-> TRUE, json |-> "object",
     raw |-> <<[key |-> "OLD::X1",
                data |-> ToJson(AliasEntry("X1", "IB", "M", "analog", "Sobrecorriente",
                                           FALSE, TRUE))]>>]

InitFiles == {NoFile, SessionFile, EditedFile}

\* a JSON file a colleague hands to the curator for import: its member names
\* are free text, the second record repeats a key of SessionFile and the
\* third repeats the key of the first
SharedFile ==
    [exists |-> TRUE, json |-> "object",
     raw |-> <<[key |-> "a",
                data |-> ToJson(AliasEntry("X1", "IB", "M", "analog", "Sobrecorriente",
                                           TRUE, FALSE))],
               [key |-> "b",
                data |-> ToJson(AliasEntry("X1", "IC", "N", "analog", "Sobrecorriente",
                                           FALSE, TRUE))],
               [key |-> "c",
                data |-> ToJson(AliasEntry("X1", "IA", "M", "analog", "Sobrecorriente",
                                           FALSE, TRUE))]>>]

ImportFiles == {SharedFile}

\* malformed backing files: a text that is not JSON, a top-level list, and a
\* mapping whose second record carries a keyword AliasEntry does not accept
InvalidFile == [exists |-> TRUE, json |-> "invalid", raw |-> <<>>]

ArrayFile == [exists |-> TRUE, json |-> "array", raw |-> <<>>]

BadRecordFile ==
    [exists |-> TRUE, json |-> "object",
     raw |-> <<[key |-> "N::X1",
                data |-> ToJson(AliasEntry("X1", "IA", "N", "analog", "Sobrecorriente",
                                           FALSE, TRUE))],
               [key |-> "M::X1",
                data |-> [relay_name |-> "X1", relay_model |-> "M", standard |-> "IB"]]>>]

\* a mapping whose record leaves fields out: the dataclass defaults fill them
SparseFile ==
    [exists |-> TRUE, json |-> "object",
     raw |-> <<[key |-> "M::X1", data |-> [relay_name |-> "X1", relay_model |-> "M"]]>>]

BackingFiles == InitFiles \cup {InvalidFile, ArrayFile, BadRecordFile, SparseFile}

(***************************************************************************)
(* XRIO documents explored: a root element with up to MaxBlocks children   *)
(* drawn from the encodings the parser reads.                              *)
(***************************************************************************)
NoAttrib == [a \in {} |-> ""]

Leaf(tag, text) == Element(tag, NoAttrib, text, <<>>)

\* <Parameter><Name>name</Name><Value>value</Value></Parameter>
Parameter(name, value) ==
    Element("Parameter", NoAttrib, "", <<Leaf("Name", name), Leaf("Value", value)>>)

\* a Parameter whose Value is an EnumId of its EnumList
EnumParameter(name, value, enum_id, enum_text) ==
    Element("Parameter", NoAttrib, "",
        <<Leaf("Name", name), Leaf("Value", value),
          Element("EnumList", NoAttrib, "",
              <<Element("EnumValue", [EnumId |-> enum_id], enum_text, <<>>)>>)>>)

\* s repeated n times
RECURSIVE Rep(_, _)
Rep(s, n) ==
    IF n = 0 THEN ""
    ELSE IF n % 2 = 0 THEN LET h == Rep(s, n \div 2) IN h \o h
    ELSE s \o Rep(s, n - 1)

\* scenario B: Block "A1RADR: 1" with a General sub-block
GeneralBlock ==
    Element("Block", NoAttrib, "",
        <<Leaf("Name", "A1RADR: 1"),
          Element("Block", NoAttrib, "",
              <<Leaf("Name", "General"), Parameter("NAME1", "IL1"),
                Parameter("NomValue01", "400"), Parameter("NAME2", ""),
                Parameter("NomValue02", "100"), Parameter("NomValue03", "5")>>)>>)

\* a second Block of A1RADR, Parameters directly beneath it
PlainBlock ==
    Element("Block", NoAttrib, "",
        <<Leaf("Name", "a1radr: 2"), Parameter("NAME1", "FREQUENCY"),
          EnumParameter("Operation01", "ID_0", "ID_0", " Off "),
          Parameter("NomValue01", "n/a"),
          Element("Parameter", NoAttrib, "",
              <<Leaf("Name", "name02"), Leaf("Value", "UL1"), Leaf("Unit", " kV ")>>)>>)

\* a Block whose Parameter suffix is longer than int() converts
LongSuffixBlock ==
    Element("Block", NoAttrib, "",
        <<Leaf("Name", "A2RADR: 1"), Parameter("NAME" \o Rep("1", MaxStrDigits + 1), "IL2")>>)

\* an A<n>RADR element with Channel children, in a namespace
ChannelBlock ==
    Element("{http://www.omicron.at/XRIO}A3RADR", NoAttrib, "",
        <<Element("{http://www.omicron.at/XRIO}Channel",
              [name |-> "VA", unit |-> "kV", primary |-> "110"], "", <<>>),
          Element("Channel", [name |-> "Station_Name"], "", <<>>)>>)

\* an A<n>RADR element read by the second strategy
InputBlock ==
    Element("A4RADR", NoAttrib, "",
        <<Element("AnalogInput", NoAttrib, "", <<Leaf("Name", "IC"), Leaf("Unit", "A")>>),
          Element("AnalogInput", [Name |-> "Sample_Rate"], "", <<>>)>>)

\* an A<n>RADR element read by the lax scaling-attribute strategy
ScaledBlock ==
    Element("A5RADR", NoAttrib, "",
        <<Element("Item", [id |-> "IB", Primary |-> "5", PhaseId |-> "B"], "", <<>>),
          Element("Item", [multiplier |-> "2"], " Date ", <<>>),
          Element("Params", [primary |-> "1"], "", <<>>)>>)

\* a B<n>RBDR element with Signal children
SignalBlock ==
    Element("B1RBDR", NoAttrib, "",
        <<Element("Signal", [name |-> "TRIP", state |-> "1"], "", <<>>),
          Element("Signal", [name |-> "Trigger", state |-> "x"], "", <<>>)>>)

\* a B<n>RBDR element read by the fallback over its direct children
RowBlock ==
    Element("b2rbdr", NoAttrib, "",
        <<Leaf("Row", " CB_OPEN "), Leaf("Row", "TYPE"), Leaf("Settings", "x")>>)

\* the disturbance report block of B1RBDR
ReportBlock ==
    Element("Block", [Id |-> "ID_B1RBDR1"], "",
        <<Leaf("Name", "B1RBDR: 1"),
          Element("Block", [Id |-> "ID_GENERAL"], "",
              <<Parameter("NAME1", "TRIP L1"), Parameter("NAME02", ""),
                EnumParameter("TrigDR01", "ID_1", "ID_1", "On"),
                Parameter("NAME97", "SPARE")>>)>>)

\* the identification of the relay
HeaderBlock ==
    Element("Header", NoAttrib, "",
        <<Leaf("ForeignId", " IedIdentifier | REC670 | 2.1 "), Leaf("Station", "S1"),
          Leaf("DeviceType", "bay")>>)

Templates ==
    {GeneralBlock, PlainBlock, LongSuffixBlock, ChannelBlock, InputBlock, ScaledBlock,
     SignalBlock, RowBlock, ReportBlock, HeaderBlock}

\* the children a root can have: up to MaxBlocks templates, in any order
RootChildren == UNION {[1..n -> Templates] : n \in 0..MaxBlocks}

NsMaps ==
    {<<>>, <<[key |-> "", entry |-> "http://www.omicron.at/XRIO"],
             [key |-> "xsi", entry |-> "http://www.w3.org/2001/XMLSchema-instance"]>>}

\* a file handed to parse: absent, not well-formed, or a document
Document(exists, wellformed, children, nsmap) ==
    [exists |-> exists, wellformed |-> wellformed,
     root |-> Element("XRIO", NoAttrib, "", children), nsmap |-> nsmap]

Documents ==
    {Document(FALSE, FALSE, <<>>, <<>>), Document(TRUE, FALSE, <<>>, <<>>)}
        \cup {Document(TRUE, TRUE, ch, ns) : ch \in RootChildren, ns \in NsMaps}

(***************************************************************************)
(* State machine                                                           *)
(***************************************************************************)
\* no parse of an XRIO file is in progress
NoParse ==
    [pc |-> "idle", doc |-> Document(FALSE, FALSE, <<>>, <<>>), ns |-> <<>>,
     data |-> XRIOData(""), raised |-> "", done |-> <<>>]

Idle == [pc |-> "idle", xrio_model |-> "", relay_model |-> "", analog_signals |-> <<>>,
         binary_signals |-> <<>>, comtrade_config |-> NoConfig, results |-> <<>>]

DB == [entries |-> entries, file |-> file]

\* AliasDatabase.__init__ on the backing file found
Init ==
    /\ file \in InitFiles
    /\ entries = _load(file).entries
    /\ xfile = NoFile
    /\ run = Idle
    /\ last = [op |-> "__init__", arg |-> [none |-> TRUE], ret |-> [none |-> TRUE]]
    /\ pre = [entries |-> <<>>, file |-> file]
    /\ peer = <<>>
    /\ writer = ""
    /\ xrio = NoParse

\* a mutating call of the store completes with outcome r
Complete(op, arg, r) ==
    /\ entries' = r.entries
    /\ file' = r.file
    /\ last' = [op |-> op, arg |-> arg, ret |-> r.ret]
    /\ pre' = DB

Add(entry) ==
    /\ run.pc = "idle"
    /\ key(entry) \in Keys(entries) \/ Len(entries) < MaxEntries
    /\ Complete("add", [entry |-> entry], add(DB, entry))
    /\ UNCHANGED <<xfile, run, others>>

Remove(relay_model, relay_name) ==
    /\ run.pc = "idle"
    /\ Complete("remove", [relay_model |-> relay_model, relay_name |-> relay_name],
                remove(DB, relay_model, relay_name))
    /\ UNCHANGED <<xfile, run, others>>

Clear ==
    /\ run.pc = "idle"
    /\ Complete("clear", [none |-> TRUE], clear(DB))
    /\ UNCHANGED <<xfile, run, others>>

FindStandardFor(relay_model, relay_name) ==
    /\ run.pc = "idle"
    /\ last' = [op |-> "find_standard_for",
                arg |-> [relay_model |-> relay_model, relay_name |-> relay_name],
                ret |-> find_standard_for(entries, relay_model, relay_name)]
    /\ pre' = DB
    /\ UNCHANGED <<entries, file, xfile, run, others>>

Export ==
    /\ run.pc = "idle"
    /\ xfile' = export_to_json(DB)
    /\ last' = [op |-> "export_to_json", arg |-> [none |-> TRUE], ret |-> [none |-> TRUE]]
    /\ pre' = DB
    /\ UNCHANGED <<entries, file, run, others>>

\* import_from_json completes with outcome r: it returned r.ret, or
\* r.raised left it
Imported(f, r) ==
    /\ Len(r.entries) <= MaxEntries
    /\ entries' = r.entries
    /\ file' = r.file
    /\ last' = [op |-> "import_from_json", arg |-> [f |-> f], ret |-> r.ret,
                raised |-> r.raised]
    /\ pre' = DB

Import(f) ==
    /\ run.pc = "idle"
    /\ Imported(f, import_from_json(DB, f))
    /\ UNCHANGED <<xfile, run, others>>

\* the process before it constructs its AliasDatabase, with the backing file
\* it will find
InitOpen ==
    /\ file \in BackingFiles
    /\ entries = <<>>
    /\ xfile = NoFile
    /\ run = Idle
    /\ last = [op |-> "start", arg |-> [none |-> TRUE], ret |-> [none |-> TRUE]]
    /\ pre = [entries |-> <<>>, file |-> file]
    /\ peer = <<>>
    /\ writer = ""
    /\ xrio = NoParse

\* AliasDatabase.__init__: _entries = {} and _load(); ret.raised names the
\* exception that leaves the constructor, "" when it returns
Open ==
    /\ last.op = "start"
    /\ entries' = _load(file).entries
    /\ last' = [op |-> "__init__", arg |-> [none |-> TRUE],
                ret |-> [none |-> _load(file).raised = "", raised |-> _load(file).raised]]
    /\ pre' = DB
    /\ UNCHANGED <<file, xfile, run, others>>

\* the constructor returned, so there is a store to call
Constructed == last.op # "start" /\ (last.op = "__init__" => last.ret.none)

\* lines of .cfg files: a header or count line with a negative analog count
\* and one digital channel, a lone number with blanks around it, and a
\* sampling-rate line; each is garbage where another kind of line is expected
LineTexts == {"1,-1A,1D", " 50 ", "2,3"}

CfgTexts == UNION {[1..n -> LineTexts] : n \in 0..MaxLines}

\* ComtradeParser.parse_cfg on the file the user picked
ParseCfg ==
    /\ last.op = "pick_cfg"
    /\ last' = [op |-> "parse_cfg", arg |-> last.arg, ret |-> parse_cfg(last.arg.lines)]
    /\ UNCHANGED <<entries, file, xfile, run, pre, others>>

\* two AliasDatabase instances constructed on the same backing file
InitTwo ==
    /\ file \in InitFiles
    /\ entries = _load(file).entries
    /\ peer = _load(file).entries
    /\ writer = ""
    /\ xfile = NoFile
    /\ run = Idle
    /\ last = [op |-> "__init__", arg |-> [none |-> TRUE], ret |-> [none |-> TRUE]]
    /\ pre = [entries |-> <<>>, file |-> file]
    /\ xrio = NoParse

\* the map of instance who
MapOf(who) == IF who = "self" THEN entries ELSE peer

\* a call of instance who completes with outcome r; wrote tells whether it saved
CompleteBy(who, r, wrote) ==
    /\ entries' = IF who = "self" THEN r.entries ELSE entries
    /\ peer' = IF who = "peer" THEN r.entries ELSE peer
    /\ file' = r.file
    /\ writer' = IF wrote THEN who ELSE writer
    /\ UNCHANGED <<xfile, run, last, pre, xrio>>

AddBy(who, entry) ==
    /\ key(entry) \in Keys(MapOf(who)) \/ Len(MapOf(who)) < MaxEntries
    /\ CompleteBy(who, add([entries |-> MapOf(who), file |-> file], entry), TRUE)

RemoveBy(who, relay_model, relay_name) ==
    LET r == remove([entries |-> MapOf(who), file |-> file], relay_model, relay_name)
    IN  CompleteBy(who, r, r.ret)

ClearBy(who) == CompleteBy(who, clear([entries |-> MapOf(who), file |-> file]), TRUE)

\* validate: relay_model = xrio_data.relay.model or "UNKNOWN"
RelayModelOf_as_is(model) == model

RelayModelOf(model) == IF model # "" THEN model ELSE "UNKNOWN"

\* validate: entry, up to the first loop
ValidateBegin(model, analog_signals, binary_signals, comtrade_config) ==
    /\ run.pc = "idle"
    /\ Len(analog_signals) + Len(binary_signals) <= MaxSignals
    /\ Len(entries) + Len(analog_signals) + Len(binary_signals) <= MaxEntries
    /\ run' = [pc |-> "loop", xrio_model |-> model,
               relay_model |-> RelayModelOf(model),
               analog_signals |-> analog_signals, binary_signals |-> binary_signals,
               comtrade_config |-> comtrade_config, results |-> <<>>]
    /\ last' = [op |-> "validate:begin", arg |-> [none |-> TRUE], ret |-> [none |-> TRUE]]
    /\ pre' = DB
    /\ UNCHANGED <<entries, file, xfile, others>>

\* validate: one iteration of the analog loop, then of the binary loop
ValidateSignal ==
    /\ run.pc = "loop"
    /\ run.analog_signals # <<>> \/ run.binary_signals # <<>>
    /\ LET analog == run.analog_signals # <<>>
           name == IF analog THEN Head(run.analog_signals) ELSE Head(run.binary_signals)
           signal_type == IF analog THEN "analog" ELSE "binary"
           v == _validate_signal(DB, name, run.relay_model, signal_type, run.comtrade_config)
       IN  /\ entries' = v.db.entries
           /\ file' = v.db.file
           /\ run' = [run EXCEPT
                        !.analog_signals = IF analog THEN Tail(@) ELSE @,
                        !.binary_signals = IF analog THEN @ ELSE Tail(@),
                        !.results = Append(@, v.result)]
           /\ last' = [op |-> "_validate_signal",
                       arg |-> [xrio_name |-> name, relay_model |-> run.relay_model,
                                signal_type |-> signal_type,
                                comtrade_config |-> run.comtrade_config],
                       ret |-> v.result]
           /\ pre' = DB
    /\ UNCHANGED <<xfile, others>>

\* validate: return results
ValidateReturn ==
    /\ run.pc = "loop"
    /\ run.analog_signals = <<>> /\ run.binary_signals = <<>>
    /\ last' = [op |-> "validate", arg |-> [relay_model |-> run.relay_model],
                ret |-> run.results]
    /\ run' = Idle
    /\ UNCHANGED <<entries, file, xfile, pre, others>>

\* inventories: sequences of signal names of length 0..MaxSignals
Inventories == UNION {[1..n -> SignalNames] : n \in 0..MaxSignals}

Validate ==
    \E model \in RelayModels, a \in Inventories, b \in Inventories, c \in Configs :
        ValidateBegin(model, a, b, c)

\* the store as the validator and the curator use it
Next ==
    \/ \E e \in CuratorEntries : Add(e)
    \/ \E m \in QueryModels, n \in QueryNames : Remove(m, n)
    \/ Clear
    \/ \E m \in QueryModels, n \in QueryNames : FindStandardFor(m, n)
    \/ Validate
    \/ ValidateSignal
    \/ ValidateReturn

Spec == Init /\ [][Next]_vars

\* the store with export and import
NextIO ==
    \/ \E e \in CuratorEntries : Add(e)
    \/ \E m \in QueryModels, n \in QueryNames : Remove(m, n)
    \/ Clear
    \/ Export
    \/ \E f \in ImportFiles \cup {xfile} : f.exists /\ Import(f)

SpecIO == Init /\ [][NextIO]_vars

\* files the curator may pick for import: a good one, a file that is absent,
\* and the malformed ones
PickedFiles == {SharedFile, NoFile, InvalidFile, ArrayFile, BadRecordFile}

\* the store with imports of any file picked
NextImp ==
    \/ \E e \in CuratorEntries : Add(e)
    \/ Clear
    \/ \E f \in PickedFiles : Import(f)

SpecImp == Init /\ [][NextImp]_vars

\* the store from the start of the process: construction, then its calls
NextOpen ==
    \/ Open
    \/ Constructed /\ \E e \in CuratorEntries : Add(e)
    \/ Constructed /\ \E m \in QueryModels, n \in QueryNames : Remove(m, n)
    \/ Constructed /\ Clear
    \/ Constructed /\ \E m \in QueryModels, n \in QueryNames : FindStandardFor(m, n)

SpecOpen == InitOpen /\ [][NextOpen]_vars

\* two instances on one backing file, their calls interleaved in any order
Instances == {"self", "peer"}

NextTwo ==
    \/ \E who \in Instances, e \in CuratorEntries : AddBy(who, e)
    \/ \E who \in Instances, m \in QueryModels, n \in QueryNames : RemoveBy(who, m, n)
    \/ \E who \in Instances : ClearBy(who)

SpecTwo == InitTwo /\ [][NextTwo]_vars

\* the .cfg parser, on every text within the bounds
InitCfg ==
    /\ file = NoFile
    /\ entries = <<>>
    /\ xfile = NoFile
    /\ run = Idle
    /\ \E text \in CfgTexts :
            last = [op |-> "pick_cfg", arg |-> [lines |-> text], ret |-> [none |-> TRUE]]
    /\ pre = [entries |-> <<>>, file |-> file]
    /\ peer = <<>>
    /\ writer = ""
    /\ xrio = NoParse

NextCfg == ParseCfg

SpecCfg == InitCfg /\ [][NextCfg]_vars

(***************************************************************************)
(* core/xrio_parser.py : XRIOParser.parse, one step per statement of the   *)
(* try block.  xrio.done lists the stages that have run; an exception      *)
(* leaves parse (pc "raised") and nothing is returned.                     *)
(***************************************************************************)
Stages ==
    <<"DetectNamespaces", "ExtractRelayIdentity", "ExtractAnalogBlocks",
      "ExtractBinaryBlocks", "ExtractDisturbanceReportBlocks", "ExtractRawBlocks">>

\* the position after a stage that returned
After(stage) ==
    LET i == CHOOSE k \in 1..Len(Stages) : Stages[k] = stage
    IN  IF i = Len(Stages) THEN "returned" ELSE Stages[i + 1]

\* the stage returns: its result is stored and the next statement is reached
Returns(stage, ns, data) ==
    xrio' = [xrio EXCEPT !.pc = After(stage), !.ns = ns, !.data = data,
                         !.done = Append(xrio.done, stage)]

\* the stage raises: the exception leaves parse
Raises(stage, exception) ==
    xrio' = [xrio EXCEPT !.pc = "raised", !.raised = exception,
                         !.done = Append(xrio.done, stage)]

\* os.path.exists, XRIOData(file_path), etree.parse and getroot
OpenDocument ==
    /\ xrio.pc = "parse"
    /\ xrio' = IF ~xrio.doc.exists
               THEN [xrio EXCEPT !.pc = "raised", !.raised = "FileNotFoundError"]
               ELSE IF ~xrio.doc.wellformed
               THEN [xrio EXCEPT !.pc = "raised", !.raised = "ValueError"]
               ELSE [xrio EXCEPT !.pc = Stages[1]]
    /\ UNCHANGED <<entries, file, xfile, run, last, pre, peer, writer>>

DetectNamespaces ==
    /\ xrio.pc = "DetectNamespaces"
    /\ Returns("DetectNamespaces", _detect_namespaces(xrio.doc.nsmap), xrio.data)
    /\ UNCHANGED <<entries, file, xfile, run, last, pre, peer, writer>>

ExtractRelayIdentity ==
    /\ xrio.pc = "ExtractRelayIdentity"
    /\ Returns("ExtractRelayIdentity", xrio.ns,
               [xrio.data EXCEPT !.relay = _extract_relay_reference(xrio.doc.root)])
    /\ UNCHANGED <<entries, file, xfile, run, last, pre, peer, writer>>

ExtractAnalogBlocks ==
    /\ xrio.pc = "ExtractAnalogBlocks"
    /\ LET r == _extract_analog_signals(xrio.doc.root)
       IN  IF r.raised # "" THEN Raises("ExtractAnalogBlocks", r.raised)
           ELSE Returns("ExtractAnalogBlocks", xrio.ns,
                        [xrio.data EXCEPT !.analog_signals = r.signals])
    /\ UNCHANGED <<entries, file, xfile, run, last, pre, peer, writer>>

ExtractBinaryBlocks ==
    /\ xrio.pc = "ExtractBinaryBlocks"
    /\ Returns("ExtractBinaryBlocks", xrio.ns,
               [xrio.data EXCEPT
                    !.binary_signals = _extract_binary_signals(xrio.doc.root)])
    /\ UNCHANGED <<entries, file, xfile, run, last, pre, peer, writer>>

ExtractDisturbanceReportBlocks ==
    /\ xrio.pc = "ExtractDisturbanceReportBlocks"
    /\ Returns("ExtractDisturbanceReportBlocks", xrio.ns,
               [xrio.data EXCEPT !.disturbance_report_signals =
                                     _extract_disturbance_report_signals(xrio.doc.root)])
    /\ UNCHANGED <<entries, file, xfile, run, last, pre, peer, writer>>

ExtractRawBlocks ==
    /\ xrio.pc = "ExtractRawBlocks"
    /\ Returns("ExtractRawBlocks", xrio.ns,
               [xrio.data EXCEPT !.raw_xml_blocks = _extract_raw_blocks(xrio.doc.root)])
    /\ UNCHANGED <<entries, file, xfile, run, last, pre, peer, writer>>

\* one call of parse on every document within the bounds
InitXrio ==
    /\ file = NoFile
    /\ entries = <<>>
    /\ xfile = NoFile
    /\ run = Idle
    /\ last = [op |-> "__init__", arg |-> [none |-> TRUE], ret |-> [none |-> TRUE]]
    /\ pre = [entries |-> <<>>, file |-> file]
    /\ peer = <<>>
    /\ writer = ""
    /\ \E doc \in Documents :
            xrio = [NoParse EXCEPT !.pc = "parse", !.doc = doc,
                                   !.data = XRIOData("relay.xrio")]

NextXrio ==
    \/ OpenDocument
    \/ DetectNamespaces
    \/ ExtractRelayIdentity
    \/ ExtractAnalogBlocks
    \/ ExtractBinaryBlocks
    \/ ExtractDisturbanceReportBlocks
    \/ ExtractRawBlocks

SpecXrio == InitXrio /\ [][NextXrio]_vars

\* names handed to _normalize_name: a head, which may be a manufacturer
\* prefix or only its letters, before a core
NameHeads == {"", "REL", "rel_", "DIG_", "CH_", " sig-"}

NameCores == {"IL1_MAG", "IL1MAG", "AY", "Va.b", ""}

NormNames == {h \o c : h \in NameHeads, c \in NameCores}

PrefixSet == {prefixes[i] : i \in 1..Len(prefixes)}

\* _normalize_name of a name and of the same name behind a prefix
Normalize ==
    /\ last.op = "pick_name"
    /\ last' = [op |-> "_normalize_name", arg |-> last.arg,
                ret |-> [plain |-> _normalize_name(last.arg.x),
                         prefixed |-> _normalize_name(last.arg.P \o last.arg.x)]]
    /\ UNCHANGED <<entries, file, xfile, run, pre, others>>

\* the normaliser, on every prefix and every name within the bounds
InitNorm ==
    /\ file = NoFile
    /\ entries = <<>>
    /\ xfile = NoFile
    /\ run = Idle
    /\ \E P \in PrefixSet, x \in NormNames :
            last = [op |-> "pick_name", arg |-> [P |-> P, x |-> x], ret |-> [none |-> TRUE]]
    /\ pre = [entries |-> <<>>, file |-> file]
    /\ peer = <<>>
    /\ writer = ""
    /\ xrio = NoParse

NextNorm == Normalize

SpecNorm == InitNorm /\ [][NextNorm]_vars

\* inventories of the summary: sequences of signal names of length 0..MaxInventory
SummaryNames == {"IA", "X1", "IA_2"}

SummaryInventories == UNION {[1..n -> SummaryNames] : n \in 0..MaxInventory}

\* a call of auto_validate_and_update completes with outcome r
Summarized(arg, r) ==
    /\ entries' = r.db.entries
    /\ file' = r.db.file
    /\ last' = [op |-> "auto_validate_and_update", arg |-> arg, ret |-> r]
    /\ pre' = DB

\* auto_validate_and_update on an inventory
Summarize(model, analog_signals, binary_signals, comtrade_config) ==
    /\ Len(analog_signals) + Len(binary_signals) <= MaxInventory
    /\ Len(entries) + Len(analog_signals) + Len(binary_signals) <= MaxEntries
    /\ Summarized([model |-> model, analog_signals |-> analog_signals,
                   binary_signals |-> binary_signals, comtrade_config |-> comtrade_config],
                  auto_validate_and_update(DB, model, analog_signals, binary_signals,
                                           comtrade_config))
    /\ UNCHANGED <<xfile, run, others>>

\* the summary, run after run on the store the runs before it left
NextSum ==
    \E model \in RelayModels, a \in SummaryInventories, b \in SummaryInventories,
       c \in Configs : Summarize(model, a, b, c)

SpecSum == Init /\ [][NextSum]_vars

(***************************************************************************)
(* Properties                                                              *)
(***************************************************************************)
\* the entry a dict holds under key k
Lookup(d, k) == d[IndexOf(d, k)].entry

\* a name that equals a catalog name when case is ignored
CatalogNames ==
    {STANDARD_ANALOG_SIGNALS[i] : i \in 1..Len(STANDARD_ANALOG_SIGNALS)}
        \cup {STANDARD_DIGITAL_SIGNALS[i] : i \in 1..Len(STANDARD_DIGITAL_SIGNALS)}

CatalogLower == {lower(n) : n \in CatalogNames}

IsCatalogName(name) == lower(name) \in CatalogLower

Validated == last.op = "_validate_signal"

TierExact == Validated /\ last.ret.match_type = "exact"
TierAlias == Validated /\ last.ret.match_type = "alias"
TierConfig == Validated /\ last.ret.match_type = "fuzzy" /\ last.ret.confidence = CONF_CONFIG
TierHeuristic == Validated /\ last.ret.match_type = "fuzzy" /\ last.ret.confidence = CONF_HEURISTIC
TierNew == Validated /\ last.ret.match_type = "new"

\* the key (relay_model, signal name) of the signal validated last
SignalKey == KeyOf(last.arg.relay_model, last.arg.xrio_name)

\* the store holds, under the validated signal's key, an entry for the resolved name
HoldsResolved ==
    /\ SignalKey \in Keys(entries)
    /\ Lookup(entries, SignalKey).standard_name = last.ret.standard_name

\* the backing file holds the in-memory map: same keys in the same order, same seven fields
FileHoldsMap ==
    /\ file.exists
    /\ Len(file.raw) = Len(entries)
    /\ \A i \in 1..Len(entries) :
        /\ file.raw[i].key = entries[i].key
        /\ file.raw[i].data.relay_name = entries[i].entry.relay_name
        /\ file.raw[i].data.standard_name = entries[i].entry.standard_name
        /\ file.raw[i].data.relay_model = entries[i].entry.relay_model
        /\ file.raw[i].data.signal_type = entries[i].entry.signal_type
        /\ file.raw[i].data.function = entries[i].entry.function
        /\ file.raw[i].data.auto_detected = entries[i].entry.auto_detected
        /\ file.raw[i].data.validated = entries[i].entry.validated

\* C1: a signal name that equals a catalog name, case ignored, is resolved at
\* tier 'exact', whatever alias the store held for it and whatever channels
\* the configuration has.
C1_ExactTierWins ==
    (Validated /\ IsCatalogName(last.arg.xrio_name)) => last.ret.match_type = "exact"

\* a catalog name validated while the store held an alias for it under its own
\* key and the configuration had a channel that passes the fuzzy test
C1_Witness ==
    /\ TierExact
    /\ SignalKey \in Keys(pre.entries)
    /\ Lookup(pre.entries, SignalKey).standard_name # last.arg.xrio_name
    /\ last.arg.comtrade_config.present
    /\ \E i \in 1..Len(last.arg.comtrade_config.analog_channels) :
          _fuzzy_match(last.arg.xrio_name, last.arg.comtrade_config.analog_channels[i].name)

\* C2: add inserts under an absent key and returns true; under a present key it
\* replaces the stored entry wholesale, returns false and keeps the number of
\* entries; every other key keeps its entry.
C2_AddInsertsOrReplaces ==
    last.op = "add" =>
        LET k == KeyOf(last.arg.entry.relay_model, last.arg.entry.relay_name)
            was == k \in Keys(pre.entries)
        IN  /\ last.ret = ~was
            /\ k \in Keys(entries)
            /\ Lookup(entries, k) = last.arg.entry
            /\ Len(entries) = (IF was THEN Len(pre.entries) ELSE Len(pre.entries) + 1)
            /\ Keys(entries) = Keys(pre.entries) \cup {k}
            /\ \A k2 \in Keys(pre.entries) \ {k} : Lookup(entries, k2) = Lookup(pre.entries, k2)

\* the second add of an identical entry
C2_Witness ==
    /\ last.op = "add"
    /\ last.ret = FALSE
    /\ key(last.arg.entry) \in Keys(pre.entries)
    /\ Lookup(pre.entries, key(last.arg.entry)) = last.arg.entry
    /\ Len(entries) = Len(pre.entries)

\* a call that changed the store: add, a remove that removed, clear, an import
\* that added at least one entry
Mutated ==
    \/ last.op \in {"add", "clear"}
    \/ last.op = "remove" /\ last.ret = TRUE
    \/ last.op = "import_from_json" /\ Len(last.arg.f.raw) > 0

\* C3: after every completed mutating call of the store the backing file holds
\* the in-memory map, key by key and field by field.
C3_WriteThrough == Mutated => FileHoldsMap

\* a remove that removed one of two entries, the other one being in the file
C3_Witness ==
    /\ last.op = "remove" /\ last.ret = TRUE
    /\ Len(pre.entries) = 2
    /\ Len(file.raw) = 1

\* C4 (as claimed): every tier-1, tier-2 or tier-3 resolution leaves the store
\* holding an entry keyed (relay_model, signal name) for the resolved name.
C4_Claimed == (TierExact \/ TierAlias \/ TierConfig) => HoldsResolved

\* C4 (amended): a tier-1 or tier-3 resolution, and a tier-2 resolution through
\* the entry under the exact key, leaves the store holding an entry keyed
\* (relay_model, signal name) for the resolved name; a tier-2 resolution
\* through the name-only fallback writes nothing, and the key stays absent.
C4_ResolvedIsStored ==
    /\ (TierExact \/ TierConfig \/ (TierAlias /\ SignalKey \in Keys(pre.entries)))
          => HoldsResolved
    /\ (TierAlias /\ SignalKey \notin Keys(pre.entries))
          => (entries = pre.entries /\ file = pre.file /\ SignalKey \notin Keys(entries))

\* a tier-3 resolution that created the entry
C4_Witness ==
    /\ TierConfig
    /\ SignalKey \notin Keys(pre.entries)
    /\ SignalKey \in Keys(entries)

\* C5: a validation ending at tier 4 (heuristic, confidence 0.5) or tier 5
\* ('new', confidence 0.0, no standard name) leaves the in-memory map and the
\* backing file as they were.
C5_LowTiersLeaveStore ==
    /\ (TierHeuristic \/ TierNew) => (entries = pre.entries /\ file = pre.file)
    /\ TierNew => (last.ret.confidence = CONF_NEW /\ last.ret.standard_name = "")
    /\ (Validated /\ last.ret.confidence = CONF_NEW) => TierNew

\* an unrecognised name validated with no configuration and no alias, on a
\* store that holds entries
C5_Witness ==
    /\ TierNew
    /\ ~last.arg.comtrade_config.present
    /\ Len(pre.entries) > 0
    /\ \A i \in 1..Len(pre.entries) :
          lower(pre.entries[i].entry.relay_name) # lower(last.arg.xrio_name)

\* the relay model the inventory carries, 'UNKNOWN' standing for an empty one
ModelOrUnknown == IF run.xrio_model = "" THEN "UNKNOWN" ELSE run.xrio_model

\* C6: validating a catalog name under relay model m gives tier 'exact' with
\* confidence 1.0 and leaves an entry under 'm::<name>' whose standard name is
\* that name, m being 'UNKNOWN' when the extracted model is empty.
C6_ExactLeavesAlias ==
    (Validated /\ IsCatalogName(last.arg.xrio_name)) =>
        LET k == ModelOrUnknown \o "::" \o last.arg.xrio_name
        IN  /\ last.ret.match_type = "exact"
            /\ last.ret.confidence = CONF_EXACT
            /\ k \in Keys(entries)
            /\ Lookup(entries, k).standard_name = last.arg.xrio_name
            /\ Lookup(entries, k).relay_name = last.arg.xrio_name

\* 'IA' validated for an inventory without a relay model
C6_Witness ==
    /\ TierExact
    /\ run.xrio_model = ""
    /\ last.arg.xrio_name = "IA"
    /\ "UNKNOWN::IA" \in Keys(entries)
    /\ "UNKNOWN::IA" \notin Keys(pre.entries)

\* C7 (as claimed): the entry recorded by an exact-tier resolution is flagged
\* auto-detected and validated.
C7_Claimed ==
    TierExact => (/\ Lookup(entries, SignalKey).auto_detected = TRUE
                  /\ Lookup(entries, SignalKey).validated = TRUE)

\* C7 (amended): the entry recorded by an exact-tier resolution is flagged
\* auto-detected and not validated.
C7_ExactEntryFlags ==
    TierExact => (/\ SignalKey \in Keys(entries)
                  /\ Lookup(entries, SignalKey).auto_detected = TRUE
                  /\ Lookup(entries, SignalKey).validated = FALSE)

\* an exact-tier resolution of a binary signal that recorded a new entry
C7_Witness ==
    /\ TierExact
    /\ last.arg.signal_type = "binary"
    /\ SignalKey \notin Keys(pre.entries)
    /\ Lookup(entries, SignalKey).signal_type = "binary"

\* the positions of the entries whose technical name matches name, case ignored
NameMatches(d, name) == {i \in 1..Len(d) : upper(d[i].entry.relay_name) = upper(name)}

\* C8: find_standard_for gives the standard name of the entry under the exact
\* key when there is one, else that of the first entry in store order whose
\* technical name matches under any model, else none.
C8_ResolveStandardFor ==
    last.op = "find_standard_for" =>
        LET k == KeyOf(last.arg.relay_model, last.arg.relay_name)
            byName == NameMatches(entries, last.arg.relay_name)
        IN  IF k \in Keys(entries)
            THEN ~last.ret.none /\ last.ret.name = Lookup(entries, k).standard_name
            ELSE IF byName # {}
            THEN /\ ~last.ret.none
                 /\ \E i \in byName :
                       /\ \A j \in byName : i <= j
                       /\ last.ret.name = entries[i].entry.standard_name
            ELSE last.ret.none

\* the exact-key entry stands behind a name-only match of another model that
\* has another standard name
C8_Witness ==
    /\ last.op = "find_standard_for"
    /\ Len(entries) = 2
    /\ entries[2].key = KeyOf(last.arg.relay_model, last.arg.relay_name)
    /\ 1 \in NameMatches(entries, last.arg.relay_name)
    /\ entries[1].entry.standard_name # entries[2].entry.standard_name
    /\ last.ret.name = entries[2].entry.standard_name

\* C9: remove returns true exactly when the key was present; the key is absent
\* afterwards and every other entry is unchanged; when the key was absent the
\* in-memory map and the backing file are unchanged.
C9_RemoveFrame ==
    last.op = "remove" =>
        LET k == KeyOf(last.arg.relay_model, last.arg.relay_name)
        IN  /\ last.ret = (k \in Keys(pre.entries))
            /\ k \notin Keys(entries)
            /\ Keys(entries) = Keys(pre.entries) \ {k}
            /\ Len(entries) = Cardinality(Keys(entries))
            /\ \A k2 \in Keys(entries) : Lookup(entries, k2) = Lookup(pre.entries, k2)
            /\ last.ret = FALSE => (entries = pre.entries /\ file = pre.file)

\* the first of two entries removed, the second one kept
C9_Witness ==
    /\ last.op = "remove" /\ last.ret = TRUE
    /\ Len(pre.entries) = 2
    /\ pre.entries[1].key = KeyOf(last.arg.relay_model, last.arg.relay_name)
    /\ entries = <<pre.entries[2]>>

\* the in-memory map holds exactly the members of a JSON file: same keys, same fields
MapHoldsFile(d, f) ==
    /\ Len(d) = Len(f.raw)
    /\ \A i \in 1..Len(d) : d[i].key = f.raw[i].key /\ ToJson(d[i].entry) = f.raw[i].data

\* C10 (as claimed): importing an exported file into an empty store yields
\* exactly the exported entries, and importing it back into the exporting
\* store reports zero new insertions and leaves the entry set unchanged.
C10_RoundTrip ==
    last.op = "import_from_json" =>
        /\ pre.entries = <<>> => MapHoldsFile(entries, last.arg.f)
        /\ MapHoldsFile(pre.entries, last.arg.f) => (last.ret = 0 /\ entries = pre.entries)

\* the key import_from_json derives for member i of a file's mapping
RecordKey(raw, i) == key(FromJson(raw[i].data))

\* the last member of the file that carries key k
LastWith(raw, k) ==
    CHOOSE i \in 1..Len(raw) :
        /\ RecordKey(raw, i) = k
        /\ \A j \in (i + 1)..Len(raw) : RecordKey(raw, j) # k

\* C11: import_from_json adds every record of the file through add and
\* returns the number of records whose key was not in the store when the
\* record was added, that is the number of distinct keys of the file that the
\* store did not hold before; a key already held, by the store or by an
\* earlier record of the file, is overwritten by the later record and is not
\* counted, and no other entry changes.
C11_ImportCountsNew ==
    last.op = "import_from_json" =>
        LET raw == last.arg.f.raw
            fileKeys == {RecordKey(raw, i) : i \in 1..Len(raw)}
        IN  /\ last.ret = Cardinality(fileKeys \ Keys(pre.entries))
            /\ Keys(entries) = Keys(pre.entries) \cup fileKeys
            /\ \A k \in fileKeys :
                    Lookup(entries, k) = FromJson(raw[LastWith(raw, k)].data)
            /\ \A k \in Keys(pre.entries) \ fileKeys :
                    Lookup(entries, k) = Lookup(pre.entries, k)

\* an import of three records into a store that holds the key of the second:
\* the first is new, the second overwrites the stored entry, the third
\* overwrites the first, and 1 is returned
C11_Witness ==
    /\ last.op = "import_from_json"
    /\ last.arg.f = SharedFile
    /\ Keys(pre.entries) = {"N::X1"}
    /\ Lookup(pre.entries, "N::X1").standard_name = "IA"
    /\ last.ret = 1
    /\ Keys(entries) = {"N::X1", "M::X1"}
    /\ Lookup(entries, "N::X1").standard_name = "IC"
    /\ Lookup(entries, "M::X1").standard_name = "IA"

\* a backing file _load cannot read as a mapping of AliasEntry records
Malformed(f) ==
    /\ f.exists
    /\ \/ f.json # "object"
       \/ \E i \in 1..Len(f.raw) : ~Buildable(f.raw[i].data)

\* C12 (as claimed): opening the store on a malformed backing file (invalid
\* JSON, a top-level value that is not a mapping, or a record that cannot be
\* built into an AliasEntry) does not raise and gives an empty store, the
\* records before the malformed one included.
C12_MalformedOpensEmpty ==
    (last.op = "__init__" /\ Malformed(file)) => (last.ret.none /\ entries = <<>>)

\* what the handler of _load does cover: invalid JSON and a record that
\* cannot be built give an empty store without raising
LoadCaught ==
    (last.op = "__init__" /\ Malformed(file) /\ file.json \in {"invalid", "object"})
        => (last.ret.none /\ entries = <<>>)

\* C13: with two instances on the same backing file and no locking, after any
\* interleaving of their mutating calls the backing file holds the whole
\* in-memory map of the instance whose mutating call completed last, and
\* nothing else (last write wins).
C13_LastWriteWins ==
    /\ writer = "self" => (file.exists /\ file.json = "object" /\ MapHoldsFile(entries, file))
    /\ writer = "peer" => (file.exists /\ file.json = "object" /\ MapHoldsFile(peer, file))

\* a lost update: an entry added through the second instance alone is held
\* by that instance and is absent from the file the first one wrote last
C13_Witness ==
    /\ writer = "self"
    /\ "M::IA" \in Keys(peer)
    /\ "M::IA" \notin Keys(entries)
    /\ Len(entries) > 0
    /\ \A i \in 1..Len(file.raw) : file.raw[i].key # "M::IA"

\* C14: parse_cfg of a text of fewer than 2 lines fails with ValueError, and
\* of a text of 2 or more lines it returns a ComtradeConfig and raises
\* nothing, whatever the fields hold and however many of the lines expected
\* after line 2 are missing; the channels it returns are never more than the
\* lines after line 2.
C14_ParseCfgTotal ==
    last.op = "parse_cfg" =>
        /\ Len(last.arg.lines) < 2 => last.ret.raised = "ValueError"
        /\ Len(last.arg.lines) >= 2 =>
                /\ last.ret.raised = ""
                /\ Len(last.ret.config.analog_channels)
                        + Len(last.ret.config.digital_channels) <= Len(last.arg.lines) - 2

\* a text of three lines whose count line announces 50 analog channels and
\* whose only channel line is garbage for a channel: one channel is
\* returned, and every later line is missing
C14_Witness ==
    /\ last.op = "parse_cfg"
    /\ last.arg.lines = <<"1,-1A,1D", " 50 ", "2,3">>
    /\ last.ret.raised = ""
    /\ last.ret.config.rev_year = 1999
    /\ last.ret.config.num_analog = 50
    /\ Len(last.ret.config.analog_channels) = 1
    /\ last.ret.config.analog_channels[1].name = "3"
    /\ last.ret.config.sampling_rates = <<>>

\* the elements of a sequence, as a set
Range(s) == {s[i] : i \in 1..Len(s)}

\* C15 (as claimed): one extraction call runs its stages in the order
\* DetectNamespaces, ExtractRelayIdentity, ExtractAnalogBlocks,
\* ExtractBinaryBlocks, ExtractDisturbanceReportBlocks, ExtractRawBlocks, and
\* an error raised inside a stage keeps no later stage from running: every
\* stage is followed by the next one, the last by the return of the results.
C15_StagesIsolated ==
    [][xrio.pc \in Range(Stages) => xrio'.pc = After(xrio.pc)]_vars

\* what parse does keep: the stages that have run are the first stages of
\* the claimed order, none skipped
StageOrder == xrio.done = SubSeq(Stages, 1, Len(xrio.done))

\* C16 (as claimed): no analog or binary signal the extractor returns has a
\* name that matches the metadata blacklist, whichever encoding produced it.
C16_NoMetadataNames ==
    /\ \A i \in 1..Len(xrio.data.analog_signals) :
            ~_is_metadata(xrio.data.analog_signals[i].name)
    /\ \A i \in 1..Len(xrio.data.binary_signals) :
            ~_is_metadata(xrio.data.binary_signals[i].name)

\* what the binary stage does keep: it has no indexed-parameter branch, and
\* no binary signal it returns has a blacklisted name
BinaryNotMetadata ==
    \A i \in 1..Len(xrio.data.binary_signals) :
        ~_is_metadata(xrio.data.binary_signals[i].name)

\* C17 (as claimed): every DisturbanceReportSignal the extractor emits has a
\* channel in 1..96 and a name that is not empty; a channel whose NAME<n> is
\* absent or resolves to empty text is skipped.
C17_DisturbanceNamed ==
    \A i \in 1..Len(xrio.data.disturbance_report_signals) :
        /\ xrio.data.disturbance_report_signals[i].channel \in 1..MaxChannel
        /\ xrio.data.disturbance_report_signals[i].name # ""

\* what the channel loop does keep: the channel numbers are in 1..96
ChannelsInRange ==
    \A i \in 1..Len(xrio.data.disturbance_report_signals) :
        xrio.data.disturbance_report_signals[i].channel \in 1..MaxChannel

\* no two signals of a sequence have the same origin block and index
UniqueIndex(signals) ==
    \A i, j \in 1..Len(signals) :
        (i # j /\ signals[i].xrio_block = signals[j].xrio_block)
            => signals[i].index # signals[j].index

\* C18 (as claimed): in the extractor's output no two analog signals of the
\* same origin block share an index, and no two binary signals do, for every
\* document, several Blocks named after the same A<digits>RADR included.
C18_IndexUniqueInBlock ==
    UniqueIndex(xrio.data.analog_signals) /\ UniqueIndex(xrio.data.binary_signals)

\* what the binary stage does keep: its running index is unique in the output
BinaryIndexUnique == UniqueIndex(xrio.data.binary_signals)

\* a Block element of the indexed-parameter encoding
IsIndexedBlock(el) ==
    _clean_tag(el.tag) = "Block" /\ SearchBlock(_get_text(el, "Name"), {"A"}, {"RADR"}) # ""

\* the block name such an element carries
BlockNameOf(el) == upper(SearchBlock(_get_text(el, "Name"), {"A"}, {"RADR"}))

\* the Parameter elements of a Block of the indexed encoding, from its
\* General sub-block when it has one, whose name ends in digits
SuffixedParameters(el) ==
    LET Suffixed(p) == _clean_tag(p.tag) = "Parameter"
                           /\ TrailingDigits(_get_text(p, "Name")) # ""
    IN  SelectSeq(Iter(TargetBlock(el)), Suffixed)

\* the number a Parameter's name ends with
SuffixOf(p) == int(TrailingDigits(_get_text(p, "Name"))).value

\* the values of group n of such a Block under the prefix pre_fix, in
\* document order
GroupValues(el, n, pre_fix) ==
    LET InGroup(p) ==
            /\ SuffixOf(p) = n
            /\ upper(SubSeq(_get_text(p, "Name"), 1,
                      Len(_get_text(p, "Name")) - Len(TrailingDigits(_get_text(p, "Name")))))
                    = pre_fix
        ps == SelectSeq(SuffixedParameters(el), InGroup)
    IN  [k \in 1..Len(ps) |-> _resolve_parameter_value(ps[k])]

\* the NAME<n> of group n: the last given, "" when none is
GroupName(el, n) ==
    LET v == GroupValues(el, n, "NAME") IN IF v = <<>> THEN "" ELSE v[Len(v)]

\* the primary of group n: its last NomValue when float accepts it, else 1.0
GroupPrimary(el, n) ==
    LET v == GroupValues(el, n, "NOMVALUE")
    IN  IF v # <<>> /\ float(v[Len(v)]).ok THEN float(v[Len(v)]).value ELSE "1.0"

\* the tags of the elements read by the tag-based strategies
TaggedBlocks(root) ==
    {_clean_tag(el.tag) : el \in {e \in Range(Iter(root)) : MatchesBlock(_clean_tag(e.tag), {"A"}, {"RADR"})}}

\* C19: in the indexed-parameter encoding the Parameters of a Block (of its
\* General sub-block when present) are grouped by their trailing number, and
\* each Block gives exactly one AnalogSignal for each index whose NAME<n> is
\* not empty, with that name, that index, the index's NomValue as primary and
\* the block name as origin; an index without a non-empty NAME<n> gives none.
C19_IndexedEncoding ==
    ("ExtractAnalogBlocks" \in Range(xrio.done) /\ xrio.pc # "raised") =>
        LET blocks == SelectSeq(Iter(xrio.doc.root), IsIndexedBlock)
        IN  \A b \in {BlockNameOf(blocks[k]) : k \in 1..Len(blocks)} \ TaggedBlocks(xrio.doc.root) :
            \A n \in UNION {{SuffixOf(p) : p \in Range(SuffixedParameters(blocks[k]))}
                                : k \in 1..Len(blocks)} :
                LET Origin(s) == s.xrio_block = b /\ s.index = n
                    Gives(el) == BlockNameOf(el) = b /\ GroupName(el, n) # ""
                    got == SelectSeq(xrio.data.analog_signals, Origin)
                    from == SelectSeq(blocks, Gives)
                IN  /\ Len(got) = Len(from)
                    /\ \A k \in 1..Len(got) :
                            /\ got[k].name = GroupName(from[k], n)
                            /\ got[k].primary = GroupPrimary(from[k], n)

\* scenario B: NAME1=IL1 and NomValue01=400 in the General sub-block of
\* block "A1RADR: 1" give one signal IL1 of index 1, primary 400, origin
\* A1RADR; NAME2, which is empty, and index 3, which has no name, give none
C19_Witness ==
    /\ xrio.pc = "returned"
    /\ xrio.doc.root.children = <<GeneralBlock>>
    /\ Len(xrio.data.analog_signals) = 1
    /\ xrio.data.analog_signals[1].name = "IL1"
    /\ xrio.data.analog_signals[1].index = 1
    /\ xrio.data.analog_signals[1].primary = "400"
    /\ xrio.data.analog_signals[1].xrio_block = "A1RADR"

\* C20 (as claimed): for every listed prefix P and every name x,
\* normalize(P + x) equals normalize(x).
C20_PrefixCanonical ==
    last.op = "_normalize_name" => last.ret.prefixed = last.ret.plain

\* what the normaliser does give: the claim's instance, and the claim for
\* every name that does not itself begin with the letters of a prefix
NormalizeExample ==
    /\ _normalize_name("REL_IL1_MAG") = _normalize_name("IL1MAG")
    /\ (last.op = "_normalize_name"
            /\ \A i \in 1..Len(prefixes) :
                    ~startswith(RemoveSeparators(strip(upper(last.arg.x))),
                                replace(prefixes[i], "_", "")))
        => last.ret.prefixed = last.ret.plain

\* the letters of prefix i, without the separator
PrefixLetters(i) == replace(prefixes[i], "_", "")

\* u begins with the letters of prefix i as part of a longer word: what
\* follows them is no separator
LongerWord(u, i) ==
    /\ startswith(u, PrefixLetters(i))
    /\ Len(u) > Len(PrefixLetters(i))
    /\ CharAt(u, Len(PrefixLetters(i)) + 1) \notin ({"_", "-", "."} \cup Whitespace)

\* u begins with prefix i as a leading token: its letters, then the separator
LeadingToken(u, i) == startswith(u, prefixes[i])

\* C21 (as claimed): normalization strips a manufacturer prefix only when it
\* is a leading token of the name; a name that begins with the letters REL,
\* DIG, ANA, BIN, CH or SIG as part of a longer word keeps them after
\* normalization.
C21_LeadingTokenOnly ==
    last.op = "_normalize_name" =>
        \A i \in 1..Len(prefixes) :
            LongerWord(strip(upper(last.arg.x)), i)
                => startswith(last.ret.plain, PrefixLetters(i))

\* what the normaliser does give: a prefix that is a leading token is stripped
LeadingTokenStripped ==
    last.op = "_normalize_name" =>
        \A i \in 1..Len(prefixes) :
            LeadingToken(strip(upper(last.arg.x)), i)
                => last.ret.plain
                     = _normalize_name(SubSeq(strip(upper(last.arg.x)), Len(prefixes[i]) + 1,
                                              Len(strip(upper(last.arg.x)))))

\* the tiers of a ValidationResult and the confidences fixed for them
Tiers == {"exact", "alias", "fuzzy", "new"}

ConfidencesOf(tier) ==
    CASE tier = "exact" -> {CONF_EXACT}
      [] tier = "alias" -> {CONF_ALIAS}
      [] tier = "fuzzy" -> {CONF_CONFIG, CONF_HEURISTIC}
      [] tier = "new" -> {CONF_NEW}
      [] OTHER -> {}

\* C22 (as claimed): every ValidationResult has a tier in {exact, alias,
\* fuzzy, new} and the confidence fixed for the way it was resolved, and its
\* resolved standard name is empty if and only if its tier is new.
C22_ResultWellFormed ==
    last.op = "_validate_signal" =>
        /\ last.ret.match_type \in Tiers
        /\ last.ret.confidence \in ConfidencesOf(last.ret.match_type)
        /\ (last.ret.standard_name = "") <=> (last.ret.match_type = "new")

\* what the cascade does give: the tier and its confidence always, a result
\* of tier new without a name always, and a name for every other result but
\* the one resolved to a channel without a name
ResultTiered ==
    last.op = "_validate_signal" =>
        /\ last.ret.match_type \in Tiers
        /\ last.ret.confidence \in ConfidencesOf(last.ret.match_type)
        /\ last.ret.match_type = "new" => last.ret.standard_name = ""
        /\ (last.ret.standard_name = "" /\ last.ret.match_type # "new")
                => last.ret.confidence = CONF_CONFIG

\* the number of results of a tier
TierCount(results, tier) ==
    Cardinality({i \in 1..Len(results) : results[i].match_type = tier})

\* C23: the summary returns exactly one result per signal of the inventory,
\* the analog signals first and then the binary signals, each in inventory
\* order, and its counts satisfy exact + alias + fuzzy + new = total = number
\* of analog signals + number of binary signals, each count being the number
\* of results of its tier.
C23_SummaryCounts ==
    last.op = "auto_validate_and_update" =>
        LET a == last.arg.analog_signals
            b == last.arg.binary_signals
            results == last.ret.results
            counts == last.ret.counts
        IN  /\ Len(results) = Len(a) + Len(b)
            /\ \A i \in 1..Len(a) : results[i].xrio_name = a[i]
            /\ \A j \in 1..Len(b) : results[Len(a) + j].xrio_name = b[j]
            /\ counts["total"] = Len(a) + Len(b)
            /\ counts["exact"] + counts["alias"] + counts["fuzzy"] + counts["new"]
                    = counts["total"]
            /\ \A t \in Tiers : counts[t] = TierCount(results, t)

\* a summary of one analog and one binary signal of different names against
\* a configuration: the analog result comes first, the two tiers are counted
C23_Witness ==
    /\ last.op = "auto_validate_and_update"
    /\ last.arg.analog_signals = <<"X1">>
    /\ last.arg.binary_signals = <<"IA">>
    /\ last.arg.comtrade_config = ConfigA
    /\ last.ret.results[1].xrio_name = "X1"
    /\ last.ret.results[1].match_type = "fuzzy"
    /\ last.ret.results[2].match_type = "exact"
    /\ last.ret.counts = [exact |-> 1, alias |-> 0, fuzzy |-> 1, new |-> 0, total |-> 2]

\* the entries of store d that tier 3 wrote for relay_model and xrio_name:
\* only _auto_add_alias sets auto_detected, and of its two callers the exact
\* tier is the one that writes names of the catalog
Learned(d, relay_model, xrio_name) ==
    {i \in 1..Len(d) : /\ d[i].key = KeyOf(relay_model, xrio_name)
                       /\ key(d[i].entry) = d[i].key
                       /\ d[i].entry.auto_detected
                       /\ ~InStandard(xrio_name)}

\* C24: learning loop: once tier 3 resolved name n under relay model m to the
\* channel name c and the entry is still in the store, every later validation
\* of n under m, with or without a configuration, yields tier alias with
\* confidence 0.95 and standard name c.
C24_LearningLoop ==
    last.op = "_validate_signal" =>
        \A i \in Learned(pre.entries, last.arg.relay_model, last.arg.xrio_name) :
            last.ret = ValidationResult(last.arg.xrio_name,
                                        pre.entries[i].entry.standard_name,
                                        "alias", CONF_ALIAS)

\* the learning loop closes for every channel name but the empty one
LearnedNamed ==
    last.op = "_validate_signal" =>
        \A i \in Learned(pre.entries, last.arg.relay_model, last.arg.xrio_name) :
            pre.entries[i].entry.standard_name # "" =>
                last.ret = ValidationResult(last.arg.xrio_name,
                                            pre.entries[i].entry.standard_name,
                                            "alias", CONF_ALIAS)

\* a learned name is validated again and comes back as an alias
LearnedAgain ==
    /\ last.op = "_validate_signal"
    /\ Learned(pre.entries, last.arg.relay_model, last.arg.xrio_name) # {}
    /\ last.ret.match_type = "alias"
    /\ ~last.arg.comtrade_config.present

\* the channels tier 3 compares a signal of the given kind with
ChannelsOfKind(comtrade_config, signal_type) ==
    IF signal_type = "analog" THEN comtrade_config.analog_channels
    ELSE comtrade_config.digital_channels

\* the result is one of tier 3
IsConfigTier(result) == result.match_type = "fuzzy" /\ result.confidence = CONF_CONFIG

\* C25: tier 3 is attempted only when a configuration is supplied, compares
\* an analog signal only with analog channels and a binary signal only with
\* digital channels, and resolves to the first channel in configuration
\* order that passes the fuzzy test; the fuzzy test is symmetric in its two
\* names.
C25_ConfigTier ==
    last.op = "_validate_signal" =>
        LET a == last.arg
            channels == ChannelsOfKind(a.comtrade_config, a.signal_type)
            every == a.comtrade_config.analog_channels \o a.comtrade_config.digital_channels
        IN  /\ IsConfigTier(last.ret) =>
                /\ a.comtrade_config.present
                /\ \E k \in 1..Len(channels) :
                      /\ last.ret.standard_name = channels[k].name
                      /\ _fuzzy_match(a.xrio_name, channels[k].name)
                      /\ \A j \in 1..(k - 1) : ~_fuzzy_match(a.xrio_name, channels[j].name)
            /\ (last.ret.confidence \in {CONF_HEURISTIC, CONF_NEW} /\ a.comtrade_config.present)
                    => \A k \in 1..Len(channels) : ~_fuzzy_match(a.xrio_name, channels[k].name)
            /\ \A k \in 1..Len(every) :
                    _fuzzy_match(a.xrio_name, every[k].name)
                        = _fuzzy_match(every[k].name, a.xrio_name)

\* an analog signal that two channels of the configuration match resolves to
\* the earlier of the two
C25_Witness ==
    /\ last.op = "_validate_signal"
    /\ last.arg.xrio_name = "X1"
    /\ last.arg.signal_type = "analog"
    /\ last.arg.comtrade_config = ConfigA
    /\ _fuzzy_match("X1", "X1")
    /\ last.ret = ValidationResult("X1", "X1_MAG", "fuzzy", CONF_CONFIG)

\* a binary signal resolves to a digital channel although an analog channel
\* comes first and passes the fuzzy test too
BinaryToDigital ==
    /\ last.op = "_validate_signal"
    /\ last.arg.xrio_name = "X1"
    /\ last.arg.signal_type = "binary"
    /\ last.ret = ValidationResult("X1", "BIN_X1", "fuzzy", CONF_CONFIG)

\* C26: a tier-3 resolution never pairs a signal with a channel when either
\* name normalizes to the empty string: the result of such a pair is not of
\* tier 3 and the validation writes no alias for it.
C26_NoEmptyMatch ==
    last.op = "_validate_signal" =>
        /\ IsConfigTier(last.ret) =>
              /\ _normalize_name(last.arg.xrio_name) # ""
              /\ _normalize_name(last.ret.standard_name) # ""
        /\ (_normalize_name(last.arg.xrio_name) = "" /\ ~InStandard(last.arg.xrio_name))
              => entries = pre.entries

\* tier 3 pairs names that both normalize to something only when the fuzzy
\* test relates the two normalized names
NamedMatch ==
    (last.op = "_validate_signal" /\ IsConfigTier(last.ret)
        /\ _normalize_name(last.arg.xrio_name) # ""
        /\ _normalize_name(last.ret.standard_name) # "")
    => \/ Contains(_normalize_name(last.arg.xrio_name), _normalize_name(last.ret.standard_name))
       \/ Contains(_normalize_name(last.ret.standard_name), _normalize_name(last.arg.xrio_name))
       \/ _extract_phase(_normalize_name(last.arg.xrio_name))
            = _extract_phase(_normalize_name(last.ret.standard_name))

\* C27: validation never overwrites a human-validated alias: every entry
\* that has validated = true before a validation step is still stored after
\* it under the same key, with the same standard name and validated = true.
C27_ValidatedKept ==
    last.op = "_validate_signal" =>
        \A i \in 1..Len(pre.entries) :
            pre.entries[i].entry.validated =>
                \E j \in 1..Len(entries) :
                    /\ entries[j].key = pre.entries[i].key
                    /\ entries[j].entry.standard_name = pre.entries[i].entry.standard_name
                    /\ entries[j].entry.validated

\* a validated entry is overwritten only by the exact tier, and never removed
ValidatedLostToExact ==
    last.op = "_validate_signal" =>
        \A i \in 1..Len(pre.entries) :
            pre.entries[i].entry.validated =>
                /\ pre.entries[i].key \in Keys(entries)
                /\ (entries[IndexOf(entries, pre.entries[i].key)].entry # pre.entries[i].entry
                        => last.ret.match_type = "exact")

\* the catalog of standard names, in its own spelling
Catalog == {get_all_standard_signal_names[i] : i \in 1..Len(get_all_standard_signal_names)}

\* C28: for every exact-tier result, the resolved standard name, and the
\* standard name of the alias entry written for it, is an element of the
\* catalog of standard names in the catalog's own spelling.
C28_ExactInCatalog ==
    (last.op = "_validate_signal" /\ last.ret.match_type = "exact") =>
        /\ last.ret.standard_name \in Catalog
        /\ \A i \in 1..Len(entries) :
              entries[i].key = KeyOf(last.arg.relay_model, last.arg.xrio_name)
                  => entries[i].entry.standard_name \in Catalog

\* an exact-tier name is a catalog name up to the case of its letters
ExactUpToCase ==
    (last.op = "_validate_signal" /\ last.ret.match_type = "exact") =>
        /\ last.ret.standard_name = last.arg.xrio_name
        /\ \E c \in Catalog : upper(c) = upper(last.ret.standard_name)

\* an item of the map whose key is the key of its entry
Consistent(item) == item.key = key(item.entry)

\* C29: key consistency: in every reachable state of the store, starting from
\* a load of any well-formed backing file and after any sequence of add,
\* remove, clear and import, each key k of the map equals relay_model + "::"
\* + relay_name of the entry stored under k.
C29_KeyConsistency == \A i \in 1..Len(entries) : Consistent(entries[i])

\* no call brings in an item whose key is not the key of its entry: such an
\* item was in the map before the call, so it comes from the load
CallsKeepConsistency ==
    [][\A i \in 1..Len(entries') :
            ~Consistent(entries'[i]) => entries'[i] \in Range(entries)]_vars

\* C30: import_from_json is all-or-nothing: if the call fails (unreadable
\* file, invalid JSON, or a record that cannot be built into an AliasEntry),
\* the in-memory map and the backing file are the same as before the call.
C30_ImportAllOrNothing ==
    (last.op = "import_from_json" /\ last.raised # "")
        => (entries = pre.entries /\ file = pre.file)

\* a call that fails before its loop changes nothing, and one that fails in
\* the loop keeps the records before the one it fails on, saved
ImportFailsClean ==
    (last.op = "import_from_json" /\ last.raised # "") =>
        /\ last.raised # "TypeError" => (entries = pre.entries /\ file = pre.file)
        /\ Keys(pre.entries) \subseteq Keys(entries)
        /\ file = pre.file \/ file = save(entries)

====
